---- MODULE Spec2Model ----
(***************************************************************************)
(* Chat-thread / message store of the luthaAI backend                      *)
(* (src/backend/routes/routes.py, src/backend/models.py).                  *)
(*                                                                         *)
(* The relational store is the shared state: the chats table, the messages *)
(* table and their auto-increment counters.  Every HTTP handler of         *)
(* routes.py that touches a chat is an action.  `last' records the most    *)
(* recent request together with the response it got.                       *)
(*                                                                         *)
(* Spec      : two accounts; requests are served one at a time (each       *)
(*             handler runs to completion before the next starts).         *)
(* SpecThread: one account and its one thread, with every payload and      *)
(*             every page request.                                         *)
(* SpecConc  : two workers serve send_message requests at the same time,   *)
(*             statement by statement.                                     *)
(* SpecRace  : three workers serve send_message, upload, delete and read   *)
(*             requests on one thread at the same time.                    *)
(* SpecArgs  : get_chat_messages with page and per_page around zero.       *)
(* SpecUpload: one account uploads files of every kind into its thread.    *)
(* SpecAuth  : every endpoint behind the bearer-token dependency.          *)
(* SpecSignup: two workers serve POST /signup at the same time.            *)
(* SpecFrame : three workers serve requests on two threads of one account. *)
(* SpecView  : the chat view of the front end, run after run.              *)
(* SpecDocs  : POST /upload_document with batches of files.                *)
(***************************************************************************)
EXTENDS Integers, Sequences, FiniteSets, TLC

VARIABLES
    chats,       \* table "chats": set of rows [id, user_id, name]
    messages,    \* table "messages": set of rows [id, chat_id, role, content]
    nextChatId,  \* auto-increment counter of chats.id
    nextMsgId,   \* auto-increment counter of messages.id
    last,        \* the last request served and its response
    deleted,     \* history: id and owner of the chat rows delete_chat removed
    reqs,        \* SpecConc, SpecRace: the requests in flight, one per worker
    foreign_keys, \* whether the database enforces messages.chat_id -> chats.id
    users,       \* table "users": set of rows [id, username, email]
    tmpdir       \* the temporary directory: the files upload_document has saved there

vars == <<chats, messages, nextChatId, nextMsgId, last, deleted, reqs, foreign_keys, users, tmpdir>>

(***************************************************************************)
(* Bounds of the model.                                                    *)
(***************************************************************************)
\* Spec: chats created, messages stored
MaxChats == 2
MaxMsgs == 2
\* SpecThread: messages stored in the thread, page and per_page requested
MaxThreadMsgs == 3
MaxPage == 3
MaxPerPage == 2

(***************************************************************************)
(* Inputs.                                                                 *)
(***************************************************************************)
\* users.id of the accounts that hold a valid bearer token
Users == {1, 2}

\* server workers that handle requests at the same time (SpecConc)
Workers == {1, 2}

\* chat ids a request may name: every id the counter can hand out
ChatIds == 1..MaxChats

\* JSON bodies of POST /chat/{id}/send_message; a key may be absent
Datas ==
    { [role |-> "user", content |-> "0123456789"],
      [role |-> "user", content |-> "Hello world"],
      [role |-> "user", content |-> "Hello there, friend"],
      [role |-> "user", content |-> "New Chat"],
      [role |-> "user"],
      [content |-> "hi"],
      [role |-> "assistant", content |-> "Hello!"],
      [role |-> "system", content |-> "be terse"] }

Pages == 1..MaxPage
PerPages == 1..MaxPerPage

Min(a, b) == IF a < b THEN a ELSE b
Max(a, b) == IF a > b THEN a ELSE b

(***************************************************************************)
(* models.py                                                               *)
(***************************************************************************)
\* Chat.name default, also the literal of create_chat and send_message
NewChat == "New Chat"

Chat(id, user_id, name) == [id |-> id, user_id |-> user_id, name |-> name]

Message(id, chat_id, role, content) ==
    [id |-> id, chat_id |-> chat_id, role |-> role, content |-> content]

(***************************************************************************)
(* Queries shared by the handlers.                                         *)
(***************************************************************************)
\* variant: the ownership query without the user_id filter
owned_chat_any(cs, user, chat_id) ==
    { c \in cs : c.id = chat_id }

\* db.query(Chat).filter(Chat.id == chat_id, Chat.user_id == current_user.id)
\* the rows the query matches; .first() is None iff the set is empty
owned_chat(cs, user, chat_id) ==
    { c \in cs : c.id = chat_id /\ c.user_id = user }

\* HTTPException(status_code=403, detail="Not authorized for this chat.")
NotAuthorized == [status |-> 403, body |-> [detail |-> "Not authorized for this chat."]]

\* db.query(Message).filter(Message.chat_id == chat_id)
chat_messages(ms, chat_id) == { m \in ms : m.chat_id = chat_id }

\* .order_by(Message.id.asc())
RECURSIVE order_by_id(_)
order_by_id(S) ==
    IF S = {} THEN << >>
    ELSE LET m == CHOOSE x \in S : \A y \in S : x.id <= y.id
         IN  << m >> \o order_by_id(S \ {m})

\* .offset(o).limit(l) on an ordered result
offset_limit(seq, o, l) ==
    IF o >= Len(seq) THEN << >>
    ELSE SubSeq(seq, o + 1, Min(o + l, Len(seq)))

\* dict.get(key, default)
data_get(data, key, default) ==
    IF key \in DOMAIN data THEN data[key] ELSE default

(***************************************************************************)
(* GET /user_chats and POST /create_chat                                   *)
(***************************************************************************)
\* [{"chat_id": c.id, "name": c.name} for c in chats]
chat_id_name(rows) ==
    [ i \in 1..Len(rows) |-> [chat_id |-> rows[i].id, name |-> rows[i].name] ]

\* variant: the query without the user_id filter
get_user_chats_all(cs, user) ==
    [status |-> 200, body |-> [chats |-> chat_id_name(order_by_id(cs))]]

\* get_user_chats: the caller's rows as a list of {chat_id, name}.  The
\* query has no ORDER BY; the rows are taken in the order of their ids.
get_user_chats(cs, user) ==
    [status |-> 200,
     body   |-> [chats |-> chat_id_name(order_by_id({ x \in cs : x.user_id = user }))]]

\* variant: the new thread gets another name
create_chat_untitled(cs, cid, user) ==
    [resp  |-> [status |-> 201, body |-> [chat_id |-> cid]],
     chats |-> cs \cup { Chat(cid, user, "Untitled") }]

\* create_chat: Chat(user_id=current_user.id, name="New Chat"); add; commit
create_chat(cs, cid, user) ==
    [resp  |-> [status |-> 201, body |-> [chat_id |-> cid]],
     chats |-> cs \cup { Chat(cid, user, NewChat) }]

(***************************************************************************)
(* GET /chat/{chat_id}/messages                                            *)
(***************************************************************************)
\* variant: the page count without the floor of one page
total_pages_unfloored(total_messages, per_page) ==
    (total_messages + per_page - 1) \div per_page

\* total_pages = max(1, (total_messages + per_page - 1) // per_page)
total_pages(total_messages, per_page) ==
    Max(1, (total_messages + per_page - 1) \div per_page)

\* variant: the offset computed as if pages were numbered from 0
page_rows_from_zero(ms, chat_id, page, per_page) ==
    offset_limit(order_by_id(chat_messages(ms, chat_id)), page * per_page, per_page)

\* the slice of the chat's messages a page holds, as rows
page_rows(ms, chat_id, page, per_page) ==
    offset_limit(order_by_id(chat_messages(ms, chat_id)),
                 (page - 1) * per_page, per_page)

\* [{"role": m.role, "content": m.content} for m in messages]
role_content(rows) ==
    [ i \in 1..Len(rows) |-> [role |-> rows[i].role, content |-> rows[i].content] ]

\* variant: a page beyond the last one is answered 404
get_chat_messages_strict(cs, ms, user, chat_id, page, per_page) ==
    IF owned_chat(cs, user, chat_id) = {}
    THEN NotAuthorized
    ELSE IF page > total_pages(Cardinality(chat_messages(ms, chat_id)), per_page)
    THEN [status |-> 404, body |-> [detail |-> "Page not found."]]
    ELSE [status |-> 200,
          body   |-> [messages    |-> role_content(page_rows(ms, chat_id, page, per_page)),
                      total_pages |-> total_pages(Cardinality(chat_messages(ms, chat_id)),
                                                  per_page)]]

get_chat_messages(cs, ms, user, chat_id, page, per_page) ==
    IF owned_chat(cs, user, chat_id) = {}
    THEN NotAuthorized
    ELSE [status |-> 200,
          body   |-> [messages    |-> role_content(page_rows(ms, chat_id, page, per_page)),
                      total_pages |-> total_pages(Cardinality(chat_messages(ms, chat_id)),
                                                  per_page)]]

\* Python's a // b for b # 0: the floor of the quotient
floordiv(a, b) == IF b > 0 THEN a \div b ELSE (0 - a) \div (0 - b)

\* an exception no handler catches: the server answers 500
InternalServerError == [status |-> 500, body |-> [detail |-> "Internal Server Error"]]

\* What the database behind DATABASE_URL does with a negative OFFSET or
\* LIMIT: "rejects" - the statement fails (PostgreSQL, MySQL); "clamps" - a
\* negative OFFSET counts as 0 and a negative LIMIT as no limit (SQLite).
Dialects == {"rejects", "clamps"}

\* .offset(o).limit(l) where the database clamps negative values
offset_limit_clamped(seq, o, l) ==
    offset_limit(seq, Max(0, o), IF l < 0 THEN Len(seq) ELSE l)

\* get_chat_messages for any integers page and per_page: the handler does
\* not validate them.  per_page = 0 divides by zero in the page count; a
\* negative offset or limit goes to the database as it is.
get_chat_messages_int(cs, ms, user, chat_id, page, per_page, dialect) ==
    LET total_messages == Cardinality(chat_messages(ms, chat_id))
    IN  IF owned_chat(cs, user, chat_id) = {}
        THEN NotAuthorized
        ELSE IF per_page = 0
        THEN InternalServerError
        ELSE IF (page - 1) * per_page >= 0 /\ per_page > 0
        THEN get_chat_messages(cs, ms, user, chat_id, page, per_page)
        ELSE IF dialect = "rejects"
        THEN InternalServerError
        ELSE [status |-> 200,
              body   |-> [messages    |-> role_content(
                                            offset_limit_clamped(
                                              order_by_id(chat_messages(ms, chat_id)),
                                              (page - 1) * per_page, per_page)),
                          total_pages |-> Max(1, floordiv(total_messages + per_page - 1,
                                                          per_page))]]

(***************************************************************************)
(* POST /chat/{chat_id}/send_message                                       *)
(***************************************************************************)
\* role = data.get("role", "user")
data_role(data) == data_get(data, "role", "user")

\* data.get("content", "")
data_content(data) == data_get(data, "content", "")

\* db.query(Message).filter(chat_id == chat_id, role == "user").count()
user_msg_count(ms, chat_id) ==
    Cardinality({ m \in chat_messages(ms, chat_id) : m.role = "user" })

\* variant: the marker appended from 10 characters on
first_chars_from_ten(content) ==
    LET head == SubSeq(content, 1, Min(10, Len(content)))
    IN  IF Len(content) >= 10 THEN head \o "..." ELSE head

\* first_chars = content[:10]; if len(content) > 10: first_chars += "..."
first_chars(content) ==
    LET head == SubSeq(content, 1, Min(10, Len(content)))
    IN  IF Len(content) > 10 THEN head \o "..." ELSE head

\* variant: the UPDATE carries no WHERE clause
rename_chat_every(cs, chat_id, name) ==
    { Chat(c.id, c.user_id, name) : c \in cs }

\* chat.name = first_chars; db.add(chat); db.commit()
rename_chat(cs, chat_id, name) ==
    { IF c.id = chat_id THEN Chat(c.id, c.user_id, name) ELSE c : c \in cs }

\* the name column of the chat row as the store holds it now
chat_name(cs, chat_id) == (CHOOSE c \in cs : c.id = chat_id).name

\* variant: every user-role message renames the thread
is_first_user_message_any(cs, ms, chat_id, role) ==
    role = "user"

\* "if role == "user" and chat.name == "New Chat"" and then
\* "if user_msg_count == 1", evaluated on the store after the insert
is_first_user_message(cs, ms, chat_id, role) ==
    /\ role = "user"
    /\ chat_name(cs, chat_id) = NewChat
    /\ user_msg_count(ms, chat_id) = 1

\* the whole handler, run without interruption
send_message_to_chat(cs, ms, mid, user, chat_id, data) ==
    LET role    == data_role(data)
        content == data_content(data)
        ms1     == ms \cup { Message(mid, chat_id, role, content) }
        cs1     == IF is_first_user_message(cs, ms1, chat_id, role)
                   THEN rename_chat(cs, chat_id, first_chars(content))
                   ELSE cs
    IN  IF owned_chat(cs, user, chat_id) = {}
        THEN [resp |-> NotAuthorized, chats |-> cs, messages |-> ms, nextMsgId |-> mid]
        ELSE [resp      |-> [status |-> 201, body |-> [message_id |-> mid]],
              chats     |-> cs1,
              messages  |-> ms1,
              nextMsgId |-> mid + 1]

(***************************************************************************)
(* DELETE /chat/{chat_id}/delete                                           *)
(***************************************************************************)
\* status_code=204, "return"
NoContent == [status |-> 204, body |-> [detail |-> ""]]

\* variant: the messages of the chat are left in the table
delete_messages_none(ms, chat_id) == ms

\* db.query(Message).filter(chat_id == chat_id).delete()
delete_messages(ms, chat_id) == ms \ chat_messages(ms, chat_id)

\* variant: the chat row is left in the table
delete_row_none(cs, chat_id) == cs

\* db.delete(chat)
delete_row(cs, chat_id) == { c \in cs : c.id # chat_id }

\* variant: the rows are deleted before the ownership check is made
delete_chat_unchecked(cs, ms, user, chat_id) ==
    [resp     |-> IF owned_chat(cs, user, chat_id) = {} THEN NotAuthorized ELSE NoContent,
     chats    |-> delete_row(cs, chat_id),
     messages |-> delete_messages(ms, chat_id)]

\* variant: a chat id that no row has is answered 404
delete_chat_404(cs, ms, user, chat_id) ==
    IF \A c \in cs : c.id # chat_id
    THEN [resp |-> [status |-> 404, body |-> [detail |-> "Chat not found."]],
          chats |-> cs, messages |-> ms]
    ELSE IF owned_chat(cs, user, chat_id) = {}
    THEN [resp |-> NotAuthorized, chats |-> cs, messages |-> ms]
    ELSE [resp     |-> NoContent,
          chats    |-> delete_row(cs, chat_id),
          messages |-> delete_messages(ms, chat_id)]

delete_chat(cs, ms, user, chat_id) ==
    IF owned_chat(cs, user, chat_id) = {}
    THEN [resp |-> NotAuthorized, chats |-> cs, messages |-> ms]
    ELSE [resp     |-> NoContent,
          chats    |-> delete_row(cs, chat_id),
          messages |-> delete_messages(ms, chat_id)]

(***************************************************************************)
(* POST /chat/{chat_id}/upload                                             *)
(***************************************************************************)
\* An uploaded file and what the collaborators do with it: whether saving
\* it under uploads/ works, the text convert_file_to_text extracts, and
\* what the summarization pipeline yields (a text, or an exception that
\* get_text_summary catches).
Files ==
    { [filename |-> "notes.txt", save_ok |-> TRUE, extracted |-> "Meeting notes",
       pipeline |-> [raises |-> FALSE, text |-> "Notes."]],
      [filename |-> "data.csv", save_ok |-> TRUE, extracted |-> "a,b",
       pipeline |-> [raises |-> FALSE, text |-> "Notes."]],
      [filename |-> "scan.PDF", save_ok |-> TRUE, extracted |-> "  ",
       pipeline |-> [raises |-> FALSE, text |-> "Notes."]],
      [filename |-> "notes.txt", save_ok |-> FALSE, extracted |-> "Meeting notes",
       pipeline |-> [raises |-> FALSE, text |-> "Notes."]] }

UpperCase == "ABCDEFGHIJKLMNOPQRSTUVWXYZ"
LowerCase == "abcdefghijklmnopqrstuvwxyz"

char_at(s, i) == SubSeq(s, i, i)

\* str.lower() of one character
lower_char(c) ==
    IF \E i \in 1..Len(UpperCase) : char_at(UpperCase, i) = c
    THEN char_at(LowerCase, CHOOSE i \in 1..Len(UpperCase) : char_at(UpperCase, i) = c)
    ELSE c

\* str.lower()
RECURSIVE lower(_)
lower(s) ==
    IF Len(s) = 0 THEN ""
    ELSE lower_char(char_at(s, 1)) \o lower(SubSeq(s, 2, Len(s)))

\* os.path.splitext(filename)[1] for a name without a directory part: the
\* text from the last dot on, provided a character other than a dot
\* precedes that dot
splitext_ext(filename) ==
    LET dots == { i \in 1..Len(filename) : char_at(filename, i) = "." }
        dot  == CHOOSE i \in dots : \A j \in dots : j <= i
    IN  IF dots = {} THEN ""
        ELSE IF \E j \in 1..(dot - 1) : char_at(filename, j) # "."
             THEN SubSeq(filename, dot, Len(filename))
             ELSE ""

\* variant: the map also knows .csv
content_type_csv(file_ext) ==
    CASE file_ext = ".pdf"  -> "application/pdf"
      [] file_ext = ".docx" -> "application/vnd.openxmlformats-officedocument.wordprocessingml.document"
      [] file_ext = ".txt"  -> "text/plain"
      [] file_ext = ".csv"  -> "text/csv"
      [] OTHER              -> ""

\* content_type_map.get(file_ext); "" stands for None
content_type(file_ext) ==
    CASE file_ext = ".pdf"  -> "application/pdf"
      [] file_ext = ".docx" -> "application/vnd.openxmlformats-officedocument.wordprocessingml.document"
      [] file_ext = ".txt"  -> "text/plain"
      [] OTHER              -> ""

\* variant: no text counts as empty
is_blank_never(s) == FALSE

\* len(extracted_text.strip()) == 0
is_blank(s) ==
    \A i \in 1..Len(s) : char_at(s, i) \in {" ", "\t", "\n", "\r"}

\* get_text_summary: the pipeline's text, or the caught exception's message
get_text_summary(outcome) ==
    IF outcome.raises
    THEN "Error generating summary: " \o outcome.text
    ELSE outcome.text

\* the summary upload_chat_file settles on
upload_summary(file) ==
    IF is_blank(file.extracted)
    THEN "The file appears to be empty or could not be processed."
    ELSE IF get_text_summary(file.pipeline) = ""
         THEN "Could not generate summary. The text might be too short or in an unsupported format."
         ELSE get_text_summary(file.pipeline)

\* f"(paperclip) Uploaded file: {file.filename}"; the paperclip sign U+1F4CE
\* is written out by its code point
file_message_content(filename) == "(U+1F4CE) Uploaded file: " \o filename

\* f"Here's a summary of {file.filename}:\n\n{summary}"
summary_message_content(filename, summary) ==
    "Here's a summary of " \o filename \o ":\n\n" \o summary

\* f"chat_{chat_id}_{file.filename}"
unique_filename(chat_id, filename) ==
    "chat_" \o ToString(chat_id) \o "_" \o filename

\* variant: only the file message is stored
upload_messages_file_only(mid, chat_id, filename, summary) ==
    { Message(mid, chat_id, "user", file_message_content(filename)) }

\* db.add(file_message); db.add(summary_message); db.commit(): the rows the
\* one commit stores, the file message with the smaller id
upload_messages(mid, chat_id, filename, summary) ==
    { Message(mid, chat_id, "user", file_message_content(filename)),
      Message(mid + 1, chat_id, "assistant", summary_message_content(filename, summary)) }

upload_chat_file(cs, ms, mid, user, chat_id, file) ==
    LET file_ext == lower(splitext_ext(file.filename))
        summary  == upload_summary(file)
        same     == [chats |-> cs, messages |-> ms, nextMsgId |-> mid]
    IN  IF owned_chat(cs, user, chat_id) = {}
        THEN [resp |-> NotAuthorized] @@ same
        ELSE IF content_type(file_ext) = ""
        THEN [resp |-> [status |-> 422,
                        body   |-> [detail |-> "Unsupported file type: " \o file_ext]]] @@ same
        ELSE IF ~file.save_ok
        THEN [resp |-> [status |-> 500, body |-> [detail |-> "write failed"]]] @@ same
        ELSE [resp      |-> [status |-> 200,
                             body   |-> [filename |-> unique_filename(chat_id, file.filename),
                                         summary  |-> summary]],
              chats     |-> cs,
              messages  |-> ms \cup upload_messages(mid, chat_id, file.filename, summary),
              nextMsgId |-> mid + 2]

(***************************************************************************)
(* The state machine: one action per handler.                              *)
(***************************************************************************)
Served(op, user, chat_id, resp) ==
    [op |-> op, user |-> user, chat_id |-> chat_id,
     status |-> resp.status, body |-> resp.body]

NoRequest == Served("none", 0, 0, [status |-> 0, body |-> [detail |-> ""]])

\* a worker that serves no request
Idle == [pc |-> "idle", user |-> 0, chat_id |-> 0, data |-> [role |-> ""],
         msg_id |-> 0, name |-> "", count |-> 0, renamed |-> FALSE, status |-> 0,
         file |-> [filename |-> ""], tx |-> {},
         \* upload_chat_file: the summary settled on, and whether the request's
         \* session has begun a transaction that it has not yet ended
         summary |-> "", in_transaction |-> FALSE]

\* rows of table "users": the two accounts of Users after their signup, both
\* without an email ("" stands for NULL)
Accounts == { [id |-> 1, username |-> "alice", email |-> ""],
              [id |-> 2, username |-> "bob", email |-> ""] }

Init ==
    /\ chats = {}
    /\ messages = {}
    /\ nextChatId = 1
    /\ nextMsgId = 1
    /\ last = NoRequest
    /\ deleted = {}
    /\ reqs = [p \in Workers |-> Idle]
    \* requests served one after the other never insert a message whose
    \* chat row is gone, so the setting of the database makes no difference
    /\ foreign_keys = TRUE
    /\ users = Accounts
    /\ tmpdir = {}

GetUserChats(u) ==
    /\ last' = Served("get_user_chats", u, 0, get_user_chats(chats, u))
    /\ UNCHANGED <<chats, messages, nextChatId, nextMsgId, deleted, reqs, foreign_keys, users, tmpdir>>

CreateChat(u) ==
    /\ LET r == create_chat(chats, nextChatId, u)
       IN  /\ chats' = r.chats
           /\ last' = Served("create_chat", u, 0, r.resp)
    /\ nextChatId' = nextChatId + 1
    /\ UNCHANGED <<messages, nextMsgId, deleted, reqs, foreign_keys, users, tmpdir>>

GetChatMessages(u, c, page, per_page) ==
    /\ last' = Served("get_chat_messages", u, c,
                      get_chat_messages(chats, messages, u, c, page, per_page))
    /\ UNCHANGED <<chats, messages, nextChatId, nextMsgId, deleted, reqs, foreign_keys, users, tmpdir>>

SendMessage(u, c, data) ==
    /\ LET r == send_message_to_chat(chats, messages, nextMsgId, u, c, data)
       IN  /\ chats' = r.chats
           /\ messages' = r.messages
           /\ nextMsgId' = r.nextMsgId
           /\ last' = Served("send_message_to_chat", u, c, r.resp)
    /\ UNCHANGED <<nextChatId, deleted, reqs, foreign_keys, users, tmpdir>>

DeleteChat(u, c) ==
    /\ LET r == delete_chat(chats, messages, u, c)
       IN  /\ chats' = r.chats
           /\ messages' = r.messages
           /\ last' = Served("delete_chat", u, c, r.resp)
           \* history: the rows of chats that were deleted
           /\ deleted' = deleted \cup { [id |-> x.id, user_id |-> x.user_id] :
                                        x \in chats \ r.chats }
    /\ UNCHANGED <<nextChatId, nextMsgId, reqs, foreign_keys, users, tmpdir>>

UploadChatFile(u, c, file) ==
    /\ LET r == upload_chat_file(chats, messages, nextMsgId, u, c, file)
       IN  /\ chats' = r.chats
           /\ messages' = r.messages
           /\ nextMsgId' = r.nextMsgId
           /\ last' = Served("upload_chat_file", u, c, r.resp)
    /\ UNCHANGED <<nextChatId, deleted, reqs, foreign_keys, users, tmpdir>>

\* GET /chat/{id}/messages without query parameters: page = 1, per_page = 20
DefaultPage == 1
DefaultPerPage == 20

\* the requests of Spec: two accounts, every handler, one payload per handler
\* outcome (SpecThread has every payload)
SomeDatas == { [role |-> "user", content |-> "Hello there, friend"] }

SomeFiles == { f \in Files : f.save_ok /\ f.filename \in {"notes.txt", "data.csv"} }

Next ==
    \/ \E u \in Users : GetUserChats(u)
    \/ \E u \in Users : nextChatId <= MaxChats /\ CreateChat(u)
    \/ \E u \in Users, c \in ChatIds :
          GetChatMessages(u, c, DefaultPage, DefaultPerPage)
    \/ \E u \in Users, c \in ChatIds, data \in SomeDatas :
          nextMsgId <= MaxMsgs /\ SendMessage(u, c, data)
    \/ \E u \in Users, c \in ChatIds : DeleteChat(u, c)
    \/ \E u \in Users, c \in ChatIds, file \in SomeFiles :
          nextMsgId + 1 <= MaxMsgs /\ UploadChatFile(u, c, file)

Spec == Init /\ [][Next]_vars

(***************************************************************************)
(* SpecThread: one account working on its one thread, with every payload   *)
(* and every page request.                                                 *)
(***************************************************************************)
NextThread ==
    \/ nextChatId <= 1 /\ CreateChat(1)
    \/ \E data \in Datas : nextMsgId <= MaxThreadMsgs /\ SendMessage(1, 1, data)
    \/ \E page \in Pages, per_page \in PerPages : GetChatMessages(1, 1, page, per_page)

SpecThread == Init /\ [][NextThread]_vars

(***************************************************************************)
(* SpecConc: two workers serve send_message requests on the shared store   *)
(* at the same time.  A worker runs the handler statement by statement;    *)
(* every statement that reaches the database reads or writes the committed *)
(* store, and statements of different workers interleave freely: the       *)
(* handler takes no lock and uses one transaction for the insert and       *)
(* another for the rename.                                                 *)
(***************************************************************************)
\* the payloads of the concurrent requests
ConcDatas ==
    { [role |-> "user", content |-> "Hello there, friend"],
      [role |-> "user", content |-> "0123456789"],
      [role |-> "assistant", content |-> "Hello!"] }

\* user 1 has created thread 1 and nobody has written to it yet
InitConc ==
    /\ chats = { Chat(1, 1, NewChat) }
    /\ messages = {}
    /\ nextChatId = 2
    /\ nextMsgId = 1
    /\ last = NoRequest
    /\ deleted = {}
    /\ reqs = [p \in Workers |-> Idle]
    /\ foreign_keys = TRUE
    /\ users = Accounts
    /\ tmpdir = {}

\* POST /chat/{c}/send_message from user u reaches worker p
Receive(p, u, c, data) ==
    /\ reqs[p].pc = "idle"
    /\ reqs' = [reqs EXCEPT ![p] = [Idle EXCEPT !.pc = "check", !.user = u,
                                                !.chat_id = c, !.data = data]]
    /\ UNCHANGED <<chats, messages, nextChatId, nextMsgId, last, deleted, foreign_keys, users, tmpdir>>

\* chat = db.query(Chat).filter(...).first(); if not chat: raise 403
CheckOwner(p) ==
    /\ reqs[p].pc = "check"
    /\ IF owned_chat(chats, reqs[p].user, reqs[p].chat_id) = {}
       THEN /\ reqs' = [reqs EXCEPT ![p].pc = "done", ![p].status = 403]
            /\ last' = Served("send_message_to_chat", reqs[p].user, reqs[p].chat_id,
                              NotAuthorized)
       ELSE /\ reqs' = [reqs EXCEPT ![p].pc = "insert"]
            /\ UNCHANGED last
    /\ UNCHANGED <<chats, messages, nextChatId, nextMsgId, deleted, foreign_keys, users, tmpdir>>

\* a request of worker p ends with an exception no handler catches
Fails(p, op) ==
    /\ reqs' = [reqs EXCEPT ![p].pc = "done", ![p].status = 500]
    /\ last' = Served(op, reqs[p].user, reqs[p].chat_id, InternalServerError)

\* the chat row a message row refers to is in the table
chat_exists(cs, chat_id) == \E c \in cs : c.id = chat_id

\* INSERT INTO messages: a database that enforces the foreign key of
\* messages.chat_id refuses a row whose chat is gone (IntegrityError)
insert_accepted(cs, chat_id, fk) == fk => chat_exists(cs, chat_id)

\* msg = Message(...); db.add(msg); db.commit(); db.refresh(msg)
InsertMessage(p) ==
    /\ reqs[p].pc = "insert"
    /\ IF insert_accepted(chats, reqs[p].chat_id, foreign_keys)
       THEN /\ messages' = messages \cup
                             { Message(nextMsgId, reqs[p].chat_id,
                                       data_role(reqs[p].data), data_content(reqs[p].data)) }
            /\ nextMsgId' = nextMsgId + 1
            /\ reqs' = [reqs EXCEPT ![p].pc = "name", ![p].msg_id = nextMsgId]
            /\ UNCHANGED last
       ELSE /\ Fails(p, "send_message_to_chat")
            /\ UNCHANGED <<messages, nextMsgId>>
    /\ UNCHANGED <<chats, nextChatId, deleted, foreign_keys, users, tmpdir>>

\* if role == "user" and chat.name == "New Chat": the commit has expired the
\* chat object, so chat.name is read from the store again
ReadName(p) ==
    /\ reqs[p].pc = "name"
    /\ IF data_role(reqs[p].data) # "user"
       THEN reqs' = [reqs EXCEPT ![p].pc = "return"] /\ UNCHANGED last
       ELSE IF ~chat_exists(chats, reqs[p].chat_id)
       \* the row was deleted meanwhile: ObjectDeletedError
       THEN Fails(p, "send_message_to_chat")
       ELSE /\ reqs' = [reqs EXCEPT
                          ![p].name = chat_name(chats, reqs[p].chat_id),
                          ![p].pc = IF chat_name(chats, reqs[p].chat_id) = NewChat
                                    THEN "count" ELSE "return"]
            /\ UNCHANGED last
    /\ UNCHANGED <<chats, messages, nextChatId, nextMsgId, deleted, foreign_keys, users, tmpdir>>

\* user_msg_count = db.query(Message).filter(...).count(); if user_msg_count == 1
CountUserMessages(p) ==
    /\ reqs[p].pc = "count"
    /\ reqs' = [reqs EXCEPT
                  ![p].count = user_msg_count(messages, reqs[p].chat_id),
                  ![p].pc = IF user_msg_count(messages, reqs[p].chat_id) = 1
                            THEN "rename" ELSE "return"]
    /\ UNCHANGED <<chats, messages, nextChatId, nextMsgId, last, deleted, foreign_keys, users, tmpdir>>

\* chat.name = first_chars; db.add(chat); db.commit(); db.refresh(chat)
RenameChat(p) ==
    /\ reqs[p].pc = "rename"
    /\ IF chat_exists(chats, reqs[p].chat_id)
       THEN /\ chats' = rename_chat(chats, reqs[p].chat_id,
                                    first_chars(data_content(reqs[p].data)))
            /\ reqs' = [reqs EXCEPT ![p].pc = "return", ![p].renamed = TRUE]
            /\ UNCHANGED last
       \* the UPDATE matches no row: StaleDataError
       ELSE /\ Fails(p, "send_message_to_chat")
            /\ UNCHANGED chats
    /\ UNCHANGED <<messages, nextChatId, nextMsgId, deleted, foreign_keys, users, tmpdir>>

\* return {"message_id": msg.id}
Return(p) ==
    /\ reqs[p].pc = "return"
    /\ reqs' = [reqs EXCEPT ![p].pc = "done", ![p].status = 201]
    /\ last' = Served("send_message_to_chat", reqs[p].user, reqs[p].chat_id,
                      [status |-> 201, body |-> [message_id |-> reqs[p].msg_id]])
    /\ UNCHANGED <<chats, messages, nextChatId, nextMsgId, deleted, foreign_keys, users, tmpdir>>

NextConc ==
    \E p \in Workers :
        \/ \E u \in Users, data \in ConcDatas : Receive(p, u, 1, data)
        \/ CheckOwner(p)
        \/ InsertMessage(p)
        \/ ReadName(p)
        \/ CountUserMessages(p)
        \/ RenameChat(p)
        \/ Return(p)

SpecConc == InitConc /\ [][NextConc]_vars

(***************************************************************************)
(* SpecRace: three workers serve send_message, upload, delete and read     *)
(* requests on thread 1 at the same time, statement by statement.  Each    *)
(* request runs in its own session (get_db); what a session has written    *)
(* reaches the committed tables at db.commit().  The database either       *)
(* enforces the foreign key messages.chat_id -> chats.id or it does not    *)
(* (DATABASE_URL decides).                                                 *)
(***************************************************************************)
\* three requests are in flight at most, one per worker
RaceWorkers == {1, 2, 3}

RaceDatas == { [role |-> "user", content |-> "Hello world"] }

RaceFiles == { f \in Files : f.filename = "notes.txt" }

\* user 1 has created thread 1 and two assistant messages are stored in it
InitRace ==
    /\ chats = { Chat(1, 1, NewChat) }
    /\ messages = { Message(1, 1, "assistant", "Hello!"),
                    Message(2, 1, "assistant", "Hello!") }
    /\ nextChatId = 2
    /\ nextMsgId = 3
    /\ last = NoRequest
    /\ deleted = {}
    /\ reqs = [p \in RaceWorkers |-> Idle]
    /\ foreign_keys \in BOOLEAN
    /\ users = Accounts
    /\ tmpdir = {}

\* variant: every statement is committed on its own
until_commit_autocommit(table, written) == written

\* sessionmaker(autocommit=False): what a statement writes stays inside the
\* session's transaction; the committed table is as before
until_commit(table, written) == table

\* DELETE /chat/{c}/delete from user u reaches worker p
ReceiveDelete(p, u, c) ==
    /\ reqs[p].pc = "idle"
    /\ reqs' = [reqs EXCEPT ![p] = [Idle EXCEPT !.pc = "d_check", !.user = u,
                                                !.chat_id = c]]
    /\ UNCHANGED <<chats, messages, nextChatId, nextMsgId, last, deleted, foreign_keys, users, tmpdir>>

\* chat = db.query(Chat).filter(...).first(); if not chat: raise 403
DeleteCheckOwner(p) ==
    /\ reqs[p].pc = "d_check"
    /\ IF owned_chat(chats, reqs[p].user, reqs[p].chat_id) = {}
       THEN /\ reqs' = [reqs EXCEPT ![p].pc = "done", ![p].status = 403]
            /\ last' = Served("delete_chat", reqs[p].user, reqs[p].chat_id, NotAuthorized)
       ELSE /\ reqs' = [reqs EXCEPT ![p].pc = "d_messages"]
            /\ UNCHANGED last
    /\ UNCHANGED <<chats, messages, nextChatId, nextMsgId, deleted, foreign_keys, users, tmpdir>>

\* db.query(Message).filter(Message.chat_id == chat_id).delete(): the rows
\* stored now are deleted inside the transaction
DeleteMessages(p) ==
    /\ reqs[p].pc = "d_messages"
    /\ messages' = until_commit(messages, delete_messages(messages, reqs[p].chat_id))
    /\ reqs' = [reqs EXCEPT ![p].pc = "d_commit",
                            ![p].tx = { m.id : m \in chat_messages(messages,
                                                                   reqs[p].chat_id) }]
    /\ UNCHANGED <<chats, nextChatId, nextMsgId, last, deleted, foreign_keys, users, tmpdir>>

\* db.delete(chat); db.commit().  The flush loads chat.messages to detach
\* the rows still there: a message stored since the DELETE gets chat_id =
\* NULL, which the column refuses.  A chat row another request has deleted
\* meanwhile makes the DELETE match no row.  Either way the commit raises,
\* the transaction is rolled back and the answer is 500.
DeleteCommit(p) ==
    LET c == reqs[p].chat_id
        remaining == { m \in chat_messages(messages, c) : m.id \notin reqs[p].tx }
    IN  /\ reqs[p].pc = "d_commit"
        /\ IF chat_exists(chats, c) /\ remaining = {}
           THEN /\ chats' = delete_row(chats, c)
                /\ messages' = { m \in messages : m.id \notin reqs[p].tx }
                /\ deleted' = deleted \cup { [id |-> x.id, user_id |-> x.user_id] :
                                             x \in chats \ delete_row(chats, c) }
                /\ reqs' = [reqs EXCEPT ![p].pc = "done", ![p].status = 204]
                /\ last' = Served("delete_chat", reqs[p].user, c, NoContent)
           ELSE /\ Fails(p, "delete_chat")
                /\ UNCHANGED <<chats, messages, deleted>>
        /\ UNCHANGED <<nextChatId, nextMsgId, foreign_keys, users, tmpdir>>

\* POST /chat/{c}/upload of a file from user u reaches worker p
ReceiveUpload(p, u, c, file) ==
    /\ reqs[p].pc = "idle"
    /\ reqs' = [reqs EXCEPT ![p] = [Idle EXCEPT !.pc = "u_check", !.user = u,
                                                !.chat_id = c, !.file = file]]
    /\ UNCHANGED <<chats, messages, nextChatId, nextMsgId, last, deleted, foreign_keys, users, tmpdir>>

\* The ownership query and the extension check of upload_chat_file.  The
\* session is made with autocommit=False: its first query begins a
\* transaction, which stays open until db.commit() or until get_db closes
\* the session when the request ends.
UploadCheckOwner(p) ==
    /\ reqs[p].pc = "u_check"
    /\ IF owned_chat(chats, reqs[p].user, reqs[p].chat_id) = {}
       THEN /\ reqs' = [reqs EXCEPT ![p].pc = "done", ![p].status = 403]
            /\ last' = Served("upload_chat_file", reqs[p].user, reqs[p].chat_id,
                              NotAuthorized)
       ELSE IF content_type(lower(splitext_ext(reqs[p].file.filename))) = ""
       THEN /\ reqs' = [reqs EXCEPT ![p].pc = "done", ![p].status = 422]
            /\ last' = Served("upload_chat_file", reqs[p].user, reqs[p].chat_id,
                              [status |-> 422,
                               body   |-> [detail |-> "Unsupported file type: " \o
                                             lower(splitext_ext(reqs[p].file.filename))]])
       ELSE /\ reqs' = [reqs EXCEPT ![p].pc = "u_summarize", ![p].in_transaction = TRUE]
            /\ UNCHANGED last
    /\ UNCHANGED <<chats, messages, nextChatId, nextMsgId, deleted, foreign_keys, users, tmpdir>>

\* the file is saved, its text extracted and summarized; none of this
\* reads or writes the database, and the session is left as it is
UploadSummarize(p) ==
    /\ reqs[p].pc = "u_summarize"
    /\ IF ~reqs[p].file.save_ok
       THEN /\ reqs' = [reqs EXCEPT ![p].pc = "done", ![p].status = 500,
                                    ![p].in_transaction = FALSE]
            /\ last' = Served("upload_chat_file", reqs[p].user, reqs[p].chat_id,
                              [status |-> 500, body |-> [detail |-> "write failed"]])
       ELSE /\ reqs' = [reqs EXCEPT ![p].pc = "u_commit",
                                    ![p].summary = upload_summary(reqs[p].file)]
            /\ UNCHANGED last
    /\ UNCHANGED <<chats, messages, nextChatId, nextMsgId, deleted, foreign_keys, users, tmpdir>>

\* db.add(file_message); db.add(summary_message); db.commit(): both rows
\* are inserted and committed together; an IntegrityError is caught by the
\* handler's "except Exception" and answered 500
UploadCommit(p) ==
    LET c == reqs[p].chat_id
        file == reqs[p].file
        summary == reqs[p].summary
    IN  /\ reqs[p].pc = "u_commit"
        /\ IF insert_accepted(chats, c, foreign_keys)
           THEN /\ messages' = messages \cup
                                 upload_messages(nextMsgId, c, file.filename, summary)
                /\ nextMsgId' = nextMsgId + 2
                /\ reqs' = [reqs EXCEPT ![p].pc = "done", ![p].status = 200,
                                        ![p].msg_id = nextMsgId,
                                        ![p].in_transaction = FALSE]
                /\ last' = Served("upload_chat_file", reqs[p].user, c,
                                  [status |-> 200,
                                   body   |-> [filename |-> unique_filename(c, file.filename),
                                               summary  |-> summary]])
           ELSE /\ reqs' = [reqs EXCEPT ![p].pc = "done", ![p].status = 500,
                                        ![p].in_transaction = FALSE]
                /\ last' = Served("upload_chat_file", reqs[p].user, c, InternalServerError)
                /\ UNCHANGED <<messages, nextMsgId>>
        /\ UNCHANGED <<chats, nextChatId, deleted, foreign_keys, users, tmpdir>>

\* GET /chat/{c}/messages from user u reaches worker p
ReceiveGet(p, u, c) ==
    /\ reqs[p].pc = "idle"
    /\ reqs' = [reqs EXCEPT ![p] = [Idle EXCEPT !.pc = "r_check", !.user = u,
                                                !.chat_id = c]]
    /\ UNCHANGED <<chats, messages, nextChatId, nextMsgId, last, deleted, foreign_keys, users, tmpdir>>

\* chat = db.query(Chat).filter(...).first(); if not chat: raise 403
GetCheckOwner(p) ==
    /\ reqs[p].pc = "r_check"
    /\ IF owned_chat(chats, reqs[p].user, reqs[p].chat_id) = {}
       THEN /\ reqs' = [reqs EXCEPT ![p].pc = "done", ![p].status = 403]
            /\ last' = Served("get_chat_messages", reqs[p].user, reqs[p].chat_id,
                              NotAuthorized)
       ELSE /\ reqs' = [reqs EXCEPT ![p].pc = "r_count"]
            /\ UNCHANGED last
    /\ UNCHANGED <<chats, messages, nextChatId, nextMsgId, deleted, foreign_keys, users, tmpdir>>

\* total_messages = db.query(Message).filter(...).count()
GetCount(p) ==
    /\ reqs[p].pc = "r_count"
    /\ reqs' = [reqs EXCEPT ![p].pc = "r_select",
                            ![p].count = Cardinality(chat_messages(messages,
                                                                   reqs[p].chat_id))]
    /\ UNCHANGED <<chats, messages, nextChatId, nextMsgId, last, deleted, foreign_keys, users, tmpdir>>

\* messages = db.query(Message)...offset(0).limit(20).all(); return
GetSelect(p) ==
    /\ reqs[p].pc = "r_select"
    /\ reqs' = [reqs EXCEPT ![p].pc = "done", ![p].status = 200,
                            ![p].tx = { m.id : m \in chat_messages(messages,
                                                                   reqs[p].chat_id) }]
    /\ last' = Served("get_chat_messages", reqs[p].user, reqs[p].chat_id,
                      [status |-> 200,
                       body   |-> [messages    |-> role_content(
                                                     page_rows(messages, reqs[p].chat_id,
                                                               DefaultPage, DefaultPerPage)),
                                   total_pages |-> total_pages(reqs[p].count,
                                                               DefaultPerPage)]])
    /\ UNCHANGED <<chats, messages, nextChatId, nextMsgId, deleted, foreign_keys, users, tmpdir>>

NextRace ==
    \E p \in RaceWorkers :
        \/ \E data \in RaceDatas : Receive(p, 1, 1, data)
        \/ CheckOwner(p)
        \/ InsertMessage(p)
        \/ ReadName(p)
        \/ CountUserMessages(p)
        \/ RenameChat(p)
        \/ Return(p)
        \/ ReceiveDelete(p, 1, 1)
        \/ DeleteCheckOwner(p)
        \/ DeleteMessages(p)
        \/ DeleteCommit(p)
        \/ \E file \in RaceFiles : ReceiveUpload(p, 1, 1, file)
        \/ UploadCheckOwner(p)
        \/ UploadSummarize(p)
        \/ UploadCommit(p)
        \/ ReceiveGet(p, 1, 1)
        \/ GetCheckOwner(p)
        \/ GetCount(p)
        \/ GetSelect(p)

SpecRace == InitRace /\ [][NextRace]_vars

(***************************************************************************)
(* SpecFrame: one account owns threads 1 and 2; three workers serve        *)
(* send_message, upload and delete requests on either thread at the same   *)
(* time, statement by statement.                                           *)
(***************************************************************************)
FrameChatIds == {1, 2}

\* user 1 has created threads 1 and 2; one assistant message is stored in
\* each of them
InitFrame ==
    /\ chats = { Chat(1, 1, NewChat), Chat(2, 1, NewChat) }
    /\ messages = { Message(1, 1, "assistant", "Hello!"),
                    Message(2, 2, "assistant", "Hello!") }
    /\ nextChatId = 3
    /\ nextMsgId = 3
    /\ last = NoRequest
    /\ deleted = {}
    /\ reqs = [p \in RaceWorkers |-> Idle]
    /\ foreign_keys = TRUE
    /\ users = Accounts
    /\ tmpdir = {}

NextFrame ==
    \E p \in RaceWorkers :
        \/ \E c \in FrameChatIds, data \in RaceDatas : Receive(p, 1, c, data)
        \/ CheckOwner(p)
        \/ InsertMessage(p)
        \/ ReadName(p)
        \/ CountUserMessages(p)
        \/ RenameChat(p)
        \/ Return(p)
        \/ \E c \in FrameChatIds : ReceiveDelete(p, 1, c)
        \/ DeleteCheckOwner(p)
        \/ DeleteMessages(p)
        \/ DeleteCommit(p)
        \/ \E c \in FrameChatIds, file \in RaceFiles : ReceiveUpload(p, 1, c, file)
        \/ UploadCheckOwner(p)
        \/ UploadSummarize(p)
        \/ UploadCommit(p)

SpecFrame == InitFrame /\ [][NextFrame]_vars

(***************************************************************************)
(* SpecArgs: one account reads its thread with page and per_page taken     *)
(* from the integers around zero.                                          *)
(***************************************************************************)
ArgPages == -1..2
ArgPerPages == -1..2

ArgDatas == { [role |-> "user", content |-> "Hello world"],
              [role |-> "assistant", content |-> "Hello!"] }

\* GET /chat/{c}/messages?page=..&per_page=.. with any integers
GetChatMessagesInt(u, c, page, per_page, dialect) ==
    /\ last' = Served("get_chat_messages", u, c,
                      get_chat_messages_int(chats, messages, u, c, page, per_page, dialect))
    /\ UNCHANGED <<chats, messages, nextChatId, nextMsgId, deleted, reqs, foreign_keys, users, tmpdir>>

NextArgs ==
    \/ nextChatId <= 1 /\ CreateChat(1)
    \/ \E data \in ArgDatas : nextMsgId <= MaxThreadMsgs /\ SendMessage(1, 1, data)
    \/ \E page \in ArgPages, per_page \in ArgPerPages, dialect \in Dialects :
          GetChatMessagesInt(1, 1, page, per_page, dialect)

SpecArgs == Init /\ [][NextArgs]_vars

(***************************************************************************)
(* SpecUpload: one account uploads files of every kind into its thread and *)
(* sends messages to it.                                                   *)
(***************************************************************************)
\* messages stored in the thread
MaxUploadMsgs == 4

\* the files of Files and, with them: files whose summarization raises, with
\* two different exceptions; a file the pipeline summarizes to nothing; an
\* empty file; a file name without an extension
UploadFiles ==
    Files \cup
    { [filename |-> "report.docx", save_ok |-> TRUE, extracted |-> "[BODY]\nQ3 report",
       pipeline |-> [raises |-> TRUE, text |-> "model not found"]],
      [filename |-> "paper.pdf", save_ok |-> TRUE, extracted |-> "Abstract",
       pipeline |-> [raises |-> TRUE, text |-> "out of memory"]],
      [filename |-> "memo.txt", save_ok |-> TRUE, extracted |-> "ok",
       pipeline |-> [raises |-> FALSE, text |-> ""]],
      [filename |-> "empty.txt", save_ok |-> TRUE, extracted |-> "",
       pipeline |-> [raises |-> FALSE, text |-> "Notes."]],
      [filename |-> "README", save_ok |-> TRUE, extracted |-> "Read me",
       pipeline |-> [raises |-> FALSE, text |-> "Notes."]] }

UploadDatas == { [role |-> "user", content |-> "Hello world"],
                 [role |-> "assistant", content |-> "Hello!"] }

NextUpload ==
    \/ nextChatId <= 1 /\ CreateChat(1)
    \/ \E file \in UploadFiles :
          nextMsgId + 1 <= MaxUploadMsgs /\ UploadChatFile(1, 1, file)
    \/ \E data \in UploadDatas : nextMsgId <= MaxUploadMsgs /\ SendMessage(1, 1, data)

SpecUpload == Init /\ [][NextUpload]_vars

(***************************************************************************)
(* SpecAuth: every chat endpoint behind its dependency                     *)
(* get_current_user_controller; requests carry a bearer token of any kind. *)
(***************************************************************************)
\* What a request presents as its credentials: whether it has an
\* "Authorization: Bearer" header at all, whether the token's signature
\* verifies under SECRET_KEY, whether its "exp" has passed, and the claims it
\* carries.
Tokens ==
    { [header |-> FALSE, signed |-> FALSE, expired |-> FALSE, payload |-> [exp |-> 0]],
      [header |-> TRUE, signed |-> FALSE, expired |-> FALSE, payload |-> [sub |-> "alice"]],
      [header |-> TRUE, signed |-> TRUE, expired |-> TRUE, payload |-> [sub |-> "alice"]],
      [header |-> TRUE, signed |-> TRUE, expired |-> FALSE, payload |-> [exp |-> 0]],
      [header |-> TRUE, signed |-> TRUE, expired |-> FALSE, payload |-> [sub |-> "mallory"]],
      [header |-> TRUE, signed |-> TRUE, expired |-> FALSE, payload |-> [sub |-> "alice"]],
      [header |-> TRUE, signed |-> TRUE, expired |-> FALSE, payload |-> [sub |-> "bob"]] }

\* OAuth2PasswordBearer without a bearer token in the request
NotAuthenticated == [status |-> 401, body |-> [detail |-> "Not authenticated"]]

\* credentials_exception
CredentialsException ==
    [status |-> 401, body |-> [detail |-> "Could not validate credentials"]]

\* db.query(User).filter(User.username == username): the rows matched
user_by_username(us, username) == { a \in us : a.username = username }

\* variant: the token's claims are read without verifying signature and expiry
get_current_user_unverified(token, us) ==
    IF ~token.header
    THEN [resp |-> NotAuthenticated, user |-> {}]
    ELSE IF "sub" \notin DOMAIN token.payload
    THEN [resp |-> CredentialsException, user |-> {}]
    ELSE IF user_by_username(us, token.payload.sub) = {}
    THEN [resp |-> CredentialsException, user |-> {}]
    ELSE [resp |-> [status |-> 200, body |-> [detail |-> ""]],
          user |-> user_by_username(us, token.payload.sub)]

\* get_current_user: the user row of the token's subject, or the 401 raised
get_current_user(token, us) ==
    IF ~token.header
    THEN [resp |-> NotAuthenticated, user |-> {}]
    \* jwt.decode raises JWTError
    ELSE IF ~token.signed \/ token.expired
    THEN [resp |-> CredentialsException, user |-> {}]
    ELSE IF "sub" \notin DOMAIN token.payload
    THEN [resp |-> CredentialsException, user |-> {}]
    ELSE IF user_by_username(us, token.payload.sub) = {}
    THEN [resp |-> CredentialsException, user |-> {}]
    ELSE [resp |-> [status |-> 200, body |-> [detail |-> ""]],
          user |-> user_by_username(us, token.payload.sub)]

\* get_current_user_controller: hands on what get_current_user yields
get_current_user_controller(token) == get_current_user(token, users)

\* users.id of the current user (no id when the dependency raised)
current_user_ids(token) == { a.id : a \in get_current_user_controller(token).user }

\* the dependency raised: the handler body does not run
Rejected(op, c, token) ==
    /\ current_user_ids(token) = {}
    /\ last' = Served(op, 0, c, get_current_user_controller(token).resp)
    /\ UNCHANGED <<chats, messages, nextChatId, nextMsgId, deleted, reqs, foreign_keys, users, tmpdir>>

AuthGetUserChats(token) ==
    \/ Rejected("get_user_chats", 0, token)
    \/ \E u \in current_user_ids(token) : GetUserChats(u)

AuthCreateChat(token) ==
    \/ Rejected("create_chat", 0, token)
    \/ \E u \in current_user_ids(token) : CreateChat(u)

AuthGetChatMessages(token, c) ==
    \/ Rejected("get_chat_messages", c, token)
    \/ \E u \in current_user_ids(token) : GetChatMessages(u, c, DefaultPage, DefaultPerPage)

AuthSendMessage(token, c, data) ==
    \/ Rejected("send_message_to_chat", c, token)
    \/ \E u \in current_user_ids(token) : SendMessage(u, c, data)

AuthDeleteChat(token, c) ==
    \/ Rejected("delete_chat", c, token)
    \/ \E u \in current_user_ids(token) : DeleteChat(u, c)

AuthUploadChatFile(token, c, file) ==
    \/ Rejected("upload_chat_file", c, token)
    \/ \E u \in current_user_ids(token) : UploadChatFile(u, c, file)

\* chat ids the requests of SpecAuth name: thread 1, which a user creates,
\* and thread 2, which never exists
AuthChatIds == {1, 2}

NextAuth ==
    \E token \in Tokens :
        \/ AuthGetUserChats(token)
        \/ nextChatId <= 1 /\ AuthCreateChat(token)
        \/ \E c \in AuthChatIds : AuthGetChatMessages(token, c)
        \/ \E c \in AuthChatIds, data \in SomeDatas :
              nextMsgId <= MaxMsgs /\ AuthSendMessage(token, c, data)
        \/ \E c \in AuthChatIds : AuthDeleteChat(token, c)
        \/ \E c \in AuthChatIds, file \in SomeFiles :
              nextMsgId + 1 <= MaxMsgs /\ AuthUploadChatFile(token, c, file)

SpecAuth == Init /\ [][NextAuth]_vars

(***************************************************************************)
(* SpecSignup: two workers serve POST /signup requests at the same time,   *)
(* statement by statement, on an empty users table.                        *)
(***************************************************************************)
\* UserCreate bodies; email "" stands for an absent email
UserCreates ==
    { [username |-> "carol", email |-> ""],
      [username |-> "carol", email |-> "c@x.io"],
      [username |-> "dave", email |-> "c@x.io"],
      [username |-> "dave", email |-> ""] }

User(id, username, email) == [id |-> id, username |-> username, email |-> email]

\* a worker that serves no signup
NoSignup == [pc |-> "idle", user |-> [username |-> "", email |-> ""], status |-> 0]

InitSignup ==
    /\ chats = {}
    /\ messages = {}
    /\ nextChatId = 1
    /\ nextMsgId = 1
    /\ last = NoRequest
    /\ deleted = {}
    /\ reqs = [p \in Workers |-> NoSignup]
    /\ foreign_keys = TRUE
    /\ users = {}
    /\ tmpdir = {}

\* db.query(User).filter(User.email == email): the rows matched
user_by_email(us, email) == { a \in us : a.email = email }

\* Column(unique=True) on users.username and users.email: the INSERT is
\* accepted iff no row has the username and no row has the (non-NULL) email
unique_index_accepts(us, user) ==
    /\ user_by_username(us, user.username) = {}
    /\ user.email # "" => user_by_email(us, user.email) = {}

\* a signup of worker p ends with the given response
SignupEnds(p, resp) ==
    /\ reqs' = [reqs EXCEPT ![p].pc = "done", ![p].status = resp.status]
    /\ last' = Served("signup", 0, 0, resp)

\* POST /signup with body user reaches worker p
ReceiveSignup(p, user) ==
    /\ reqs[p].pc \in {"idle", "done"}
    /\ reqs' = [reqs EXCEPT ![p] = [NoSignup EXCEPT !.pc = "s_username", !.user = user]]
    /\ UNCHANGED <<chats, messages, nextChatId, nextMsgId, last, deleted, foreign_keys, users, tmpdir>>

\* db_user_username = db.query(User).filter(username).first(); 400 if found
CheckUsername(p) ==
    /\ reqs[p].pc = "s_username"
    /\ IF user_by_username(users, reqs[p].user.username) # {}
       THEN SignupEnds(p, [status |-> 400,
                           body   |-> [detail |-> "Username already registered"]])
       ELSE reqs' = [reqs EXCEPT ![p].pc = "s_email"] /\ UNCHANGED last
    /\ UNCHANGED <<chats, messages, nextChatId, nextMsgId, deleted, foreign_keys, users, tmpdir>>

\* if user.email: db_user_email = db.query(User).filter(email).first(); 400 if found
CheckEmail(p) ==
    /\ reqs[p].pc = "s_email"
    /\ IF reqs[p].user.email # "" /\ user_by_email(users, reqs[p].user.email) # {}
       THEN SignupEnds(p, [status |-> 400,
                           body   |-> [detail |-> "Email already registered"]])
       ELSE reqs' = [reqs EXCEPT ![p].pc = "s_insert"] /\ UNCHANGED last
    /\ UNCHANGED <<chats, messages, nextChatId, nextMsgId, deleted, foreign_keys, users, tmpdir>>

\* db.add(db_user); db.commit(); db.refresh(db_user); the token is returned.
\* An INSERT the unique index refuses raises IntegrityError, which nothing
\* catches: 500.
InsertUser(p) ==
    /\ reqs[p].pc = "s_insert"
    /\ IF unique_index_accepts(users, reqs[p].user)
       THEN /\ users' = users \cup { User(Cardinality(users) + 1, reqs[p].user.username,
                                          reqs[p].user.email) }
            /\ SignupEnds(p, [status |-> 201,
                              body   |-> [detail |-> reqs[p].user.username]])
       ELSE /\ SignupEnds(p, InternalServerError)
            /\ UNCHANGED users
    /\ UNCHANGED <<chats, messages, nextChatId, nextMsgId, deleted, foreign_keys, tmpdir>>

NextSignup ==
    \E p \in Workers :
        \/ \E user \in UserCreates : ReceiveSignup(p, user)
        \/ CheckUsername(p)
        \/ CheckEmail(p)
        \/ InsertUser(p)

SpecSignup == InitSignup /\ [][NextSignup]_vars

(***************************************************************************)
(* SpecView: the chat view of the front end (src/frontend/views/chat.py).  *)
(* One browser session of user 1 runs the script render() again and again; *)
(* threads are also created and deleted through the API.  reqs holds the   *)
(* st.session_state of the session.                                        *)
(***************************************************************************)
\* prompts one thread's local history takes
MaxPrompts == 1

\* calls of ollama.chat counted for one prompt
MaxModelCalls == 2

\* the account logged in to the browser session
ViewUser == 1

\* st.session_state.selected_model when Ollama lists no model
selected_model == "llama3"

\* what chat_input returns in a run: "" when nothing was submitted
Prompts == {"", "Hi"}

\* what ollama.chat(..., stream=True) does: it yields chunks (some, none, or
\* chunks without text), raises ollama.ResponseError, or raises otherwise
ModelOutcomes ==
    { [kind |-> "stream", chunks |-> <<"He", "llo">>, error |-> ""],
      [kind |-> "stream", chunks |-> << >>, error |-> ""],
      [kind |-> "stream", chunks |-> <<"">>, error |-> ""],
      [kind |-> "ResponseError", chunks |-> << >>, error |-> "model not found"],
      [kind |-> "Exception", chunks |-> << >>, error |-> "connection refused"] }

\* st.session_state of a session that has not rendered the chat view yet;
\* model_calls counts the ollama.chat calls made since the last prompt
NoView == [active_chat_id |-> 0, chat_page |-> 0,
           local_chat_history |-> [c \in ChatIds |-> << >>],
           model_calls |-> 0]

InitView ==
    /\ chats = {}
    /\ messages = {}
    /\ nextChatId = 1
    /\ nextMsgId = 1
    /\ last = NoRequest
    /\ deleted = {}
    /\ reqs = [s \in {ViewUser} |-> NoView]
    /\ foreign_keys = TRUE
    /\ users = Accounts
    /\ tmpdir = {}

\* fetch_user_chats: the chats of the 200 response; [] for any other
\* response and for an exception
fetch_user_chats(listing_ok, resp) ==
    IF listing_ok /\ resp.status = 200 THEN resp.body.chats ELSE << >>

\* for chunk in stream: full_response += chunk['message']['content']
RECURSIVE full_response(_)
full_response(chunks) ==
    IF chunks = << >> THEN ""
    ELSE chunks[1] \o full_response(SubSeq(chunks, 2, Len(chunks)))

\* the content the streaming block stores in the placeholder
streamed_content(outcome) ==
    IF outcome.kind = "stream" THEN full_response(outcome.chunks)
    ELSE IF outcome.kind = "ResponseError"
    THEN "Error communicating with Ollama: " \o outcome.error \o
         ". Please ensure Ollama is running and the model '" \o selected_model \o
         "' is pulled."
    ELSE "An unexpected error occurred: " \o outcome.error

\* the last message is an assistant message with empty content
placeholder_pending(history) ==
    /\ history # << >>
    /\ history[Len(history)].role = "assistant"
    /\ history[Len(history)].content = ""

\* one run of render() for the session of user u.  listing_ok and
\* create_ok say whether GET /user_chats and POST /create_chat get through
\* to the backend and are answered; chat_prompt is what the user submitted;
\* outcome is what the model call does if the run reaches it.
Render(u, listing_ok, create_ok, chat_prompt, outcome) ==
    LET ss         == reqs[u]
        listed     == fetch_user_chats(listing_ok, get_user_chats(chats, u))
        has_chats  == listed # << >>
        creates    == ~has_chats /\ create_ok
        r          == create_chat(chats, nextChatId, u)
        user_chats == IF has_chats THEN listed
                      ELSE << [chat_id |-> nextChatId, name |-> NewChat] >>
        chat_ids   == { user_chats[i].chat_id : i \in 1..Len(user_chats) }
        \* the auto-created thread becomes the active one; an active id that
        \* is not listed is replaced by the first listed id
        active     == IF creates THEN nextChatId
                      ELSE IF ss.active_chat_id \notin chat_ids
                      THEN user_chats[1].chat_id
                      ELSE ss.active_chat_id
        page       == IF creates \/ ss.active_chat_id \notin chat_ids \/ ss.chat_page = 0
                      THEN 1 ELSE ss.chat_page
        selected   == [ss EXCEPT !.active_chat_id = active, !.chat_page = page]
        history    == ss.local_chat_history[active]
        done(kind, created) ==
            Served("render", u, IF kind = "welcome" THEN 0 ELSE active,
                   [status |-> 200, body |-> [run |-> kind, created |-> created]])
    IN  /\ IF creates
           THEN chats' = r.chats /\ nextChatId' = nextChatId + 1
           ELSE UNCHANGED <<chats, nextChatId>>
        /\ IF ~has_chats /\ ~create_ok
           \* no thread listed and none created: the welcome page, return
           THEN /\ reqs' = reqs
                /\ last' = done("welcome", 0)
           ELSE IF chat_prompt # ""
           \* the prompt and an empty assistant placeholder are appended to
           \* the local history; st.rerun()
           THEN /\ reqs' = [reqs EXCEPT ![u] =
                              [selected EXCEPT
                                 !.local_chat_history[active] =
                                     history \o << [role |-> "user", content |-> chat_prompt],
                                                   [role |-> "assistant", content |-> ""] >>,
                                 !.model_calls = 0]]
                /\ last' = done("prompt", IF creates THEN nextChatId ELSE 0)
           ELSE IF placeholder_pending(history)
           \* the streaming block: one ollama.chat call, its text (or the
           \* error message) stored in the placeholder; st.rerun()
           THEN /\ reqs' = [reqs EXCEPT ![u] =
                              [selected EXCEPT
                                 !.local_chat_history[active][Len(history)].content =
                                     streamed_content(outcome),
                                 !.model_calls = ss.model_calls + 1]]
                /\ last' = done("stream", IF creates THEN nextChatId ELSE 0)
           ELSE /\ reqs' = [reqs EXCEPT ![u] = selected]
                /\ last' = done("shown", IF creates THEN nextChatId ELSE 0)
        /\ UNCHANGED <<messages, nextMsgId, deleted, foreign_keys, users, tmpdir>>

NextView ==
    \/ \E listing_ok, create_ok \in BOOLEAN, chat_prompt \in Prompts,
          outcome \in ModelOutcomes :
          /\ create_ok => nextChatId <= MaxChats
          /\ chat_prompt # "" =>
                \A c \in ChatIds : Len(reqs[ViewUser].local_chat_history[c]) < 2 * MaxPrompts
          /\ reqs[ViewUser].model_calls < MaxModelCalls
          /\ Render(ViewUser, listing_ok, create_ok, chat_prompt, outcome)
    \/ nextChatId <= MaxChats /\ CreateChat(ViewUser)
    \/ \E c \in ChatIds : DeleteChat(ViewUser, c)

SpecView == InitView /\ [][NextView]_vars

(***************************************************************************)
(* SpecDocs: POST /upload_document (document_controller.py,                *)
(* document_service.py).  One worker takes a batch of files and handles    *)
(* it file by file; reqs holds the locals of upload_document_controller.   *)
(***************************************************************************)
\* files in one request, files in the temporary directory
MaxBatch == 2
MaxTmpFiles == 3

\* raw_text[:200]
PreviewLen == 200

ALLOWED_MIME_TYPES ==
    { "application/pdf",
      "application/vnd.openxmlformats-officedocument.wordprocessingml.document",
      "text/plain" }

\* the files a client sends: a text file that parses; a file of a type that
\* is not allowed; files whose save fails, leaving nothing or a partly
\* written temporary file; a PDF the parser raises on; a text file of blanks
DocFiles ==
    { [filename |-> "a.txt", content_type |-> "text/plain", save |-> "ok",
       size |-> 5, parse_error |-> "", raw_text |-> "hello"],
      [filename |-> "b.png", content_type |-> "image/png", save |-> "ok",
       size |-> 9, parse_error |-> "", raw_text |-> ""],
      [filename |-> "c.txt", content_type |-> "text/plain", save |-> "failed",
       size |-> 5, parse_error |-> "", raw_text |-> "hello"],
      [filename |-> "c.txt", content_type |-> "text/plain", save |-> "partial",
       size |-> 5, parse_error |-> "", raw_text |-> "hello"],
      [filename |-> "d.pdf", content_type |-> "application/pdf", save |-> "ok",
       size |-> 7, parse_error |-> "No /Root object", raw_text |-> ""],
      [filename |-> "e.txt", content_type |-> "text/plain", save |-> "ok",
       size |-> 2, parse_error |-> "", raw_text |-> " \n"] }

Batches == UNION { [1..n -> DocFiles] : n \in 0..MaxBatch }

\* the locals of a request that has not arrived
NoUpload == [pc |-> "idle", files |-> << >>, i |-> 0, temp_files |-> << >>,
             metadata_list |-> << >>, status |-> 0]

InitDocs ==
    /\ chats = {}
    /\ messages = {}
    /\ nextChatId = 1
    /\ nextMsgId = 1
    /\ last = NoRequest
    /\ deleted = {}
    /\ reqs = [p \in {1} |-> NoUpload]
    /\ foreign_keys = TRUE
    /\ users = Accounts
    /\ tmpdir = {}

\* tempfile.NamedTemporaryFile(delete=False): a name that is not in use
temp_path(dir) == CHOOSE t \in 1..(Cardinality(dir) + 1) : t \notin dir

\* for f in temp_files: f.unlink(missing_ok=True)
unlink(dir, temp_files) == dir \ { temp_files[j] : j \in 1..Len(temp_files) }

\* the request of worker p ends with an error response
DocFails(p, status, detail) ==
    /\ reqs' = [reqs EXCEPT ![p].pc = "done", ![p].status = status]
    /\ last' = Served("upload_document", ViewUser, 0,
                      [status |-> status, body |-> [detail |-> detail]])

\* POST /upload_document with a batch of files reaches worker p; an empty
\* batch is answered 400 at once
ReceiveUploadDocument(p, files) ==
    /\ reqs[p].pc \in {"idle", "done"}
    /\ IF Len(files) = 0
       THEN /\ reqs' = [reqs EXCEPT ![p] = [NoUpload EXCEPT !.pc = "done", !.status = 400]]
            /\ last' = Served("upload_document", ViewUser, 0,
                              [status |-> 400, body |-> [detail |-> "No files uploaded."]])
       ELSE /\ reqs' = [reqs EXCEPT ![p] = [NoUpload EXCEPT !.pc = "loop", !.files = files,
                                                            !.i = 1]]
            /\ UNCHANGED last
    /\ UNCHANGED <<chats, messages, nextChatId, nextMsgId, deleted, foreign_keys, users, tmpdir>>

\* one pass of "for upload_file in files": validate_file_service outside the
\* try block, then save, parse and the metadata entry inside it; both
\* except blocks unlink the files of temp_files and re-raise
ProcessFile(p) ==
    LET f     == reqs[p].files[reqs[p].i]
        t     == temp_path(tmpdir)
        saved == Append(reqs[p].temp_files, t)
    IN  /\ reqs[p].pc = "loop"
        /\ reqs[p].i <= Len(reqs[p].files)
        /\ IF f.content_type \notin ALLOWED_MIME_TYPES
           THEN /\ DocFails(p, 400, "Unsupported file type: " \o f.content_type)
                /\ UNCHANGED tmpdir
           ELSE IF f.save # "ok"
           THEN /\ DocFails(p, 500, "Failed to save uploaded file: write error")
                /\ tmpdir' = unlink(IF f.save = "partial" THEN tmpdir \cup {t} ELSE tmpdir,
                                    reqs[p].temp_files)
           ELSE IF f.parse_error # ""
           THEN /\ DocFails(p, 500, "Document parsing error: " \o f.parse_error)
                /\ tmpdir' = unlink(tmpdir \cup {t}, saved)
           ELSE IF is_blank(f.raw_text)
           THEN /\ DocFails(p, 400, "No text extracted")
                /\ tmpdir' = unlink(tmpdir \cup {t}, saved)
           ELSE /\ reqs' = [reqs EXCEPT
                              ![p].i = reqs[p].i + 1,
                              ![p].temp_files = saved,
                              ![p].metadata_list =
                                  Append(reqs[p].metadata_list,
                                         [filename     |-> f.filename,
                                          content_type |-> f.content_type,
                                          size         |-> f.size,
                                          text_preview |->
                                              SubSeq(f.raw_text, 1,
                                                     Min(PreviewLen, Len(f.raw_text)))])]
                /\ tmpdir' = tmpdir \cup {t}
                /\ UNCHANGED last
        /\ UNCHANGED <<chats, messages, nextChatId, nextMsgId, deleted, foreign_keys, users>>

\* return {"files": metadata_list}
ReturnFiles(p) ==
    /\ reqs[p].pc = "loop"
    /\ reqs[p].i > Len(reqs[p].files)
    /\ reqs' = [reqs EXCEPT ![p].pc = "done", ![p].status = 200]
    /\ last' = Served("upload_document", ViewUser, 0,
                      [status |-> 200, body |-> [files |-> reqs[p].metadata_list]])
    /\ UNCHANGED <<chats, messages, nextChatId, nextMsgId, deleted, foreign_keys, users, tmpdir>>

NextDocs ==
    \/ \E files \in Batches :
          /\ Cardinality(tmpdir) + Len(files) <= MaxTmpFiles
          /\ ReceiveUploadDocument(1, files)
    \/ ProcessFile(1)
    \/ ReturnFiles(1)

SpecDocs == InitDocs /\ [][NextDocs]_vars

(***************************************************************************)
(* Properties.                                                             *)
(***************************************************************************)
\* the handlers that take a chat id
ThreadOps == {"get_chat_messages", "send_message_to_chat", "delete_chat", "upload_chat_file"}

\* the last request was made against a chat row that some other user owns
LastIsForeign ==
    /\ last.op \in ThreadOps
    /\ \E ch \in chats : ch.id = last.chat_id /\ ch.user_id # last.user

\* C1: whenever a user calls get_messages, send_message, delete_chat or
\* upload_chat_file against a thread that another user owns, the response
\* is 403 "Not authorized for this chat.".
C1_ForeignThreadIs403 ==
    [][ (/\ last'.op \in ThreadOps
         /\ \E ch \in chats : ch.id = last'.chat_id /\ ch.user_id # last'.user)
        => last'.status = 403 /\ last'.body = NotAuthorized.body ]_vars

\* C1 witness: a send_message against another user's thread was answered 403
C1_Witness ==
    /\ LastIsForeign
    /\ last.op = "send_message_to_chat"
    /\ last.status = 403

\* the store with the row of chat c and its messages taken out
chats_without(c) == { ch \in chats : ch.id # c }
messages_without(c) == { m \in messages : m.chat_id # c }

\* C2: for a caller who does not own thread c, every handler answers the
\* same, and leaves the store the same, whether c exists (owned by someone
\* else) or does not exist at all.
C2_ExistenceNotLeaked ==
    \A u \in Users, c \in ChatIds :
        (\E ch \in chats : ch.id = c /\ ch.user_id # u) =>
            LET cs0 == chats_without(c)
                ms0 == messages_without(c)
            IN  /\ \A page \in Pages, per_page \in PerPages :
                     get_chat_messages(chats, messages, u, c, page, per_page)
                       = get_chat_messages(cs0, ms0, u, c, page, per_page)
                /\ \A data \in Datas :
                     /\ send_message_to_chat(chats, messages, nextMsgId, u, c, data).resp
                          = send_message_to_chat(cs0, ms0, nextMsgId, u, c, data).resp
                     /\ send_message_to_chat(chats, messages, nextMsgId, u, c, data).chats = chats
                     /\ send_message_to_chat(chats, messages, nextMsgId, u, c, data).messages = messages
                     /\ send_message_to_chat(cs0, ms0, nextMsgId, u, c, data).chats = cs0
                     /\ send_message_to_chat(cs0, ms0, nextMsgId, u, c, data).messages = ms0
                /\ delete_chat(chats, messages, u, c).resp = delete_chat(cs0, ms0, u, c).resp
                /\ delete_chat(chats, messages, u, c).chats = chats
                /\ delete_chat(chats, messages, u, c).messages = messages
                /\ delete_chat(cs0, ms0, u, c).chats = cs0
                /\ delete_chat(cs0, ms0, u, c).messages = ms0
                /\ \A file \in Files :
                     /\ upload_chat_file(chats, messages, nextMsgId, u, c, file).resp
                          = upload_chat_file(cs0, ms0, nextMsgId, u, c, file).resp
                     /\ upload_chat_file(chats, messages, nextMsgId, u, c, file).chats = chats
                     /\ upload_chat_file(chats, messages, nextMsgId, u, c, file).messages = messages
                     /\ upload_chat_file(cs0, ms0, nextMsgId, u, c, file).chats = cs0
                     /\ upload_chat_file(cs0, ms0, nextMsgId, u, c, file).messages = ms0

\* C2 witness: a delete of a thread id that no row has was answered 403 while
\* the same caller is shut out of an existing thread of another user
C2_Witness ==
    /\ last.op = "delete_chat"
    /\ last.status = 403
    /\ \A ch \in chats : ch.id # last.chat_id
    /\ \E ch \in chats : ch.user_id # last.user

\* C3: once delete_chat has removed a thread, no message with its chat_id is
\* stored, and get_messages on that id by the former owner is answered 403
\* (not 200 with an empty list), from then on.
C3_DeletedThreadGone ==
    \A d \in deleted :
        /\ chat_messages(messages, d.id) = {}
        /\ \A page \in Pages, per_page \in PerPages :
             get_chat_messages(chats, messages, d.user_id, d.id, page, per_page)
               = NotAuthorized
        /\ (last.op = "get_chat_messages" /\ last.chat_id = d.id) => last.status = 403

\* C3 witness: the only thread ever created held messages, was deleted, and
\* its former owner then asked for its messages and got 403
C3_Witness ==
    /\ nextChatId = 2
    /\ nextMsgId > 1
    /\ last.op = "get_chat_messages"
    /\ last.status = 403
    /\ \E d \in deleted : d.id = last.chat_id /\ d.user_id = last.user

(***************************************************************************)
(* Pagination (SpecThread).                                                *)
(***************************************************************************)
\* the i-th message appended to thread c: the one with i-1 older messages
nth_appended(c, i) ==
    CHOOSE m \in chat_messages(messages, c) :
        Cardinality({ x \in chat_messages(messages, c) : x.id < m.id }) = i - 1

\* the thread's messages in append order, as the response shows a message
appended_log(c) ==
    [ i \in 1..Cardinality(chat_messages(messages, c)) |->
        [role |-> nth_appended(c, i).role, content |-> nth_appended(c, i).content] ]

\* k = max(1, ceil(n / per_page)), said without a division
is_page_count(k, n, per_page) ==
    /\ k >= 1
    /\ k * per_page >= n
    /\ k > 1 => (k - 1) * per_page < n

\* what the owner gets for one page
owner_page(ch, page, per_page) ==
    get_chat_messages(chats, messages, ch.user_id, ch.id, page, per_page)

\* the message lists of pages from..to, one after the other
RECURSIVE pages_concat(_, _, _, _)
pages_concat(ch, from, to, per_page) ==
    IF from > to THEN << >>
    ELSE owner_page(ch, from, per_page).body.messages
           \o pages_concat(ch, from + 1, to, per_page)

\* C4: for the owner of a thread with N messages and any per_page P >= 1,
\* total_pages is max(1, ceil(N/P)) and pages 1..total_pages, read one after
\* the other, give the N messages in append order, each exactly once.
C4_PagesPartitionThread ==
    \A ch \in chats : \A per_page \in PerPages :
        LET n  == Cardinality(chat_messages(messages, ch.id))
            tp == owner_page(ch, 1, per_page).body.total_pages
        IN  /\ owner_page(ch, 1, per_page).status = 200
            /\ is_page_count(tp, n, per_page)
            /\ \A page \in 1..tp :
                 /\ owner_page(ch, page, per_page).status = 200
                 /\ owner_page(ch, page, per_page).body.total_pages = tp
            /\ pages_concat(ch, 1, tp, per_page) = appended_log(ch.id)

\* C4 witness: a thread of three messages was read with per_page 2 and the
\* last page, holding the third message alone, was served
C4_Witness ==
    /\ last.op = "get_chat_messages"
    /\ last.status = 200
    /\ Cardinality(chat_messages(messages, last.chat_id)) = 3
    /\ last.body.total_pages = 2
    /\ last.body.messages = << appended_log(last.chat_id)[3] >>

\* the last request was a get_messages by the owner of the thread; a read
\* changes nothing, so the store is as it was when the request was served
LastIsOwnerRead ==
    /\ last.op = "get_chat_messages"
    /\ owned_chat(chats, last.user, last.chat_id) # {}

\* C5: get_messages by the owner on a thread without messages is answered
\* 200 with an empty message list and total_pages = 1, for every page and
\* per_page.
C5_EmptyThreadOnePage ==
    /\ \A ch \in chats : chat_messages(messages, ch.id) = {} =>
          \A page \in Pages, per_page \in PerPages :
              owner_page(ch, page, per_page)
                = [status |-> 200, body |-> [messages |-> << >>, total_pages |-> 1]]
    /\ (LastIsOwnerRead /\ chat_messages(messages, last.chat_id) = {}) =>
          /\ last.status = 200
          /\ last.body.messages = << >>
          /\ last.body.total_pages = 1

\* C5 witness: the owner read a thread that holds no message
C5_Witness ==
    /\ LastIsOwnerRead
    /\ chat_messages(messages, last.chat_id) = {}
    /\ last.status = 200
    /\ nextMsgId = 1

\* C6: get_messages by the owner with page > total_pages is answered 200
\* with an empty slice and total_pages = max(1, ceil(N/per_page)).
C6_PageBeyondEnd ==
    \A ch \in chats : \A per_page \in PerPages, page \in Pages :
        LET n == Cardinality(chat_messages(messages, ch.id))
            r == owner_page(ch, page, per_page)
        IN  (~is_page_count(page, n, per_page) /\ page * per_page >= n) =>
               /\ r.status = 200
               /\ r.body.messages = << >>
               /\ is_page_count(r.body.total_pages, n, per_page)
               /\ r.body.total_pages < page
               /\ r.body.total_pages = owner_page(ch, 1, per_page).body.total_pages

\* C6 witness: the owner read a page of a thread that holds messages and got
\* an empty slice with total_pages = 1
C6_Witness ==
    /\ LastIsOwnerRead
    /\ chat_messages(messages, last.chat_id) # {}
    /\ last.status = 200
    /\ last.body.messages = << >>
    /\ last.body.total_pages = 1

(***************************************************************************)
(* Thread naming (SpecThread).                                             *)
(***************************************************************************)
\* the roles the data model names (models.py: role, "user" or "assistant")
Roles == {"user", "assistant"}

\* name is the first 10 characters of content, followed by "..." exactly
\* when content has more than 10 characters
is_truncation_of(name, content) ==
    IF Len(content) <= 10
    THEN name = content
    ELSE /\ Len(name) = 13
         /\ SubSeq(name, 1, 10) = SubSeq(content, 1, 10)
         /\ SubSeq(name, 11, 13) = "..."

\* the user-role messages of thread c
user_messages(c) == { m \in chat_messages(messages, c) : m.role = "user" }

\* the user-role message of thread c that was stored first
first_user_message(c) ==
    CHOOSE m \in user_messages(c) : \A x \in user_messages(c) : m.id <= x.id

\* C7: when the owner sends the first user-role message to a thread still
\* named "New Chat", the thread is then named by the first 10 characters of
\* the content, with "..." appended iff the content is longer than 10.
C7_FirstUserMessageNames ==
    [][ \A m \in messages' \ messages :
          ( /\ last'.op = "send_message_to_chat"
            /\ m.role = "user"
            /\ user_messages(m.chat_id) = {}
            /\ chat_name(chats, m.chat_id) = NewChat )
          => /\ last'.status = 201
             /\ last'.user = (CHOOSE ch \in chats : ch.id = m.chat_id).user_id
             /\ is_truncation_of(chat_name(chats', m.chat_id), m.content) ]_vars

\* C7 witness: the first user message had exactly 10 characters and the
\* thread now carries them as its name, without a marker
C7_Witness ==
    /\ last.op = "send_message_to_chat"
    /\ last.status = 201
    /\ Cardinality(messages) = 1
    /\ \E m \in messages :
          /\ m.role = "user"
          /\ Len(m.content) = 10
          /\ chat_name(chats, m.chat_id) = m.content

\* the name of every thread is the default while the thread holds no user
\* message, and afterwards the truncation of its first user message
NameFollowsFirstUserMessage ==
    \A ch \in chats :
        IF user_messages(ch.id) = {}
        THEN ch.name = NewChat
        ELSE is_truncation_of(ch.name, first_user_message(ch.id).content)

\* a step changes the name of a thread only by storing, in that step, the
\* first user-role message of the thread
NameChangesOnlyWithFirstUserMessage ==
    \A ch \in chats : \A ch2 \in chats' :
        (ch2.id = ch.id /\ ch2.name # ch.name) =>
            /\ user_messages(ch.id) = {}
            /\ \E m \in messages' \ messages : m.chat_id = ch.id /\ m.role = "user"

\* C8: over any sequence of send_message requests to a thread its name is
\* set once, by the first user-role message: the name is the default before
\* that message and its truncation ever after, and neither a later user
\* message nor an assistant message changes the name.
C8_RenamedOnceByFirstUserMessage ==
    /\ []NameFollowsFirstUserMessage
    /\ [][NameChangesOnlyWithFirstUserMessage]_vars

\* C8 witness: after "Hello there, friend" a second user message was stored
\* and the thread is still named "Hello ther..."
C8_Witness ==
    /\ last.op = "send_message_to_chat"
    /\ \E ch \in chats :
          /\ Cardinality(user_messages(ch.id)) >= 2
          /\ first_user_message(ch.id).content = "Hello there, friend"
          /\ ch.name = "Hello ther..."

\* C10: a send_message whose role is neither "user" nor "assistant" is
\* answered 422 and stores nothing.
C10_UnknownRoleRejected ==
    [][ \A u \in Users, c \in ChatIds, data \in Datas :
          ( /\ SendMessage(u, c, data)
            /\ owned_chat(chats, u, c) # {}
            /\ data_role(data) \notin Roles )
          => /\ last'.status = 422
             /\ messages' = messages ]_vars

(***************************************************************************)
(* Concurrent first messages (SpecConc).                                   *)
(***************************************************************************)
\* both workers have served a user-role send_message of the owner on thread 1
BothUserSendsDone ==
    \A p \in Workers :
        /\ reqs[p].pc = "done"
        /\ reqs[p].status = 201
        /\ reqs[p].chat_id = 1
        /\ data_role(reqs[p].data) = "user"

\* C9: when two user-role send_message requests run concurrently on a
\* default-named thread without user messages, then, however their steps
\* interleave, exactly one of them renames the thread, and the name is the
\* truncation of the message that was stored first.
C9_ConcurrentRenameOnce ==
    BothUserSendsDone =>
        /\ Cardinality({ p \in Workers : reqs[p].renamed }) = 1
        /\ is_truncation_of(chat_name(chats, 1), first_user_message(1).content)

\* C11: get_messages with page <= 0 or per_page <= 0 is rejected with a
\* client error (a validation error), not answered 200 and not failed with
\* a server error.
C11_NonPositiveArgsRejected ==
    [][ \A page \in ArgPages, per_page \in ArgPerPages, dialect \in Dialects :
          (/\ page <= 0 \/ per_page <= 0
           /\ owned_chat(chats, 1, 1) # {}
           /\ GetChatMessagesInt(1, 1, page, per_page, dialect))
          => last'.status \in 400..499 ]_vars

\* C12: delete_chat removes the thread and all its messages as one atomic
\* unit: every step of the committed store that removes a message of a
\* thread, or the thread's row, leaves neither the row nor any message of
\* the thread, so no concurrent reader finds the thread with only some of
\* its messages or finds messages of a thread that this delete removed.
C12_DeleteIsAtomic ==
    [][ \A c \in ChatIds :
          (\/ \E m \in messages \ messages' : m.chat_id = c
           \/ chat_exists(chats, c) /\ ~chat_exists(chats', c))
          => (~chat_exists(chats', c) /\ chat_messages(messages', c) = {}) ]_vars

\* C12 witness: a reader was answered with every message of the thread
\* while a delete_chat had run its DELETE statement and not yet committed
C12_Witness ==
    \E p, q \in RaceWorkers :
        /\ reqs[p].pc = "d_commit"
        /\ reqs[p].tx # {}
        /\ last.op = "get_chat_messages"
        /\ reqs[q].pc = "done"
        /\ reqs[q].status = 200
        /\ reqs[q].tx = reqs[p].tx

\* C13: in every reachable state, under any interleaving of send_message,
\* upload_chat_file and delete_chat on the same thread, every stored
\* message refers to a chat row that exists.
C13_NoOrphanMessage ==
    \A m \in messages : chat_exists(chats, m.chat_id)

\* filename ends with the given suffix
ends_with(filename, suffix) ==
    /\ Len(filename) >= Len(suffix)
    /\ SubSeq(filename, Len(filename) - Len(suffix) + 1, Len(filename)) = suffix

\* the file name carries one of the three supported extensions, in any case
has_supported_extension(filename) ==
    \E e \in {".pdf", ".docx", ".txt"} : ends_with(lower(filename), e)

\* C14: an upload by the thread's owner of a file whose extension is not
\* .pdf, .docx or .txt is answered 422 and appends no message.
C14_UnsupportedExtensionIs422 ==
    [][ \A file \in UploadFiles :
          (/\ ~has_supported_extension(file.filename)
           /\ owned_chat(chats, 1, 1) # {}
           /\ UploadChatFile(1, 1, file))
          => (last'.status = 422 /\ messages' = messages /\ chats' = chats) ]_vars

\* C14 witness: the owner's upload into a thread that holds messages was
\* answered 422
C14_Witness ==
    /\ last.op = "upload_chat_file"
    /\ last.status = 422
    /\ owned_chat(chats, last.user, last.chat_id) # {}
    /\ chat_messages(messages, last.chat_id) # {}

\* the rows a step has added to the messages table
appended == messages' \ messages

\* C15: an upload by the owner of a file with a supported extension whose
\* extracted text is empty succeeds and appends exactly two messages: the
\* user-role record of the file name and an assistant message that carries
\* the fixed placeholder for an empty file.
C15_EmptyTextPlaceholder ==
    [][ \A file \in UploadFiles :
          (/\ has_supported_extension(file.filename)
           /\ file.save_ok
           /\ Len(file.extracted) = 0
           /\ owned_chat(chats, 1, 1) # {}
           /\ UploadChatFile(1, 1, file))
          => (/\ last'.status = 200
              /\ messages \subseteq messages'
              /\ Cardinality(appended) = 2
              /\ \E a, b \in appended :
                    /\ a.chat_id = 1 /\ b.chat_id = 1
                    /\ a.role = "user"
                    /\ a.content = "(U+1F4CE) Uploaded file: " \o file.filename
                    /\ b.role = "assistant"
                    /\ b.content = "Here's a summary of " \o file.filename \o ":\n\n" \o
                         "The file appears to be empty or could not be processed.") ]_vars

\* C15 witness: the upload of the empty file empty.txt was answered with the
\* placeholder and its two messages are stored
C15_Witness ==
    /\ last.op = "upload_chat_file"
    /\ last.status = 200
    /\ last.body.filename = "chat_1_empty.txt"
    /\ last.body.summary = "The file appears to be empty or could not be processed."
    /\ \E a, b \in messages :
          /\ a.content = "(U+1F4CE) Uploaded file: empty.txt"
          /\ b.role = "assistant"
          /\ b.id = a.id + 1

starts_with(text, prefix) ==
    /\ Len(text) >= Len(prefix)
    /\ SubSeq(text, 1, Len(prefix)) = prefix

\* a row that records an uploaded file, and a row that carries a summary
is_file_message(m) ==
    m.role = "user" /\ starts_with(m.content, "(U+1F4CE) Uploaded file: ")
is_summary_message(m) ==
    m.role = "assistant" /\ starts_with(m.content, "Here's a summary of ")

\* in the set S the file messages and the summary messages come in pairs of
\* one thread, the file message with the smaller id
upload_pairs(S) ==
    /\ \A a \in S : is_file_message(a) =>
          \E b \in S : is_summary_message(b) /\ b.chat_id = a.chat_id /\ a.id < b.id
    /\ \A b \in S : is_summary_message(b) =>
          \E a \in S : is_file_message(a) /\ b.chat_id = a.chat_id /\ a.id < b.id

\* C16: a successful upload appends exactly two messages in one step of the
\* committed store, the user-role file message with the smaller id and the
\* assistant summary with the larger; the store never holds one of the two
\* without the other.
C16_UploadAppendsPairAtomically ==
    /\ [] upload_pairs(messages)
    /\ [][ /\ (\E m \in appended : is_file_message(m) \/ is_summary_message(m))
              => (Cardinality(appended) = 2 /\ upload_pairs(appended))
           /\ \A p \in RaceWorkers :
                (reqs[p].pc = "u_commit" /\ reqs'[p].status = 200)
                => (/\ messages \subseteq messages'
                    /\ Cardinality(appended) = 2
                    /\ \E a, b \in appended :
                          /\ is_file_message(a) /\ is_summary_message(b)
                          /\ a.id < b.id) ]_vars

\* C16 witness: an upload has committed while a send_message of another
\* worker was in flight, and both of its messages are stored
C16_Witness ==
    /\ last.op = "upload_chat_file"
    /\ last.status = 200
    /\ \E p \in RaceWorkers : reqs[p].pc \in {"insert", "name", "count", "rename", "return"}
    /\ \E a, b \in messages : is_file_message(a) /\ is_summary_message(b) /\ a.id < b.id

\* C17: the user-role message of an upload is subject to the first-message
\* naming rule: a successful upload into a thread named "New Chat" that
\* holds no user-role message renames the thread from the content of the
\* upload's file message.
C17_UploadNamesThread ==
    [][ (/\ last'.op = "upload_chat_file"
         /\ last'.status = 200
         /\ appended # {}
         /\ owned_chat(chats, 1, 1) # {}
         /\ chat_name(chats, 1) = NewChat
         /\ user_msg_count(messages, 1) = 0)
        => \E a \in appended :
              /\ is_file_message(a)
              /\ is_truncation_of(chat_name(chats', 1), a.content) ]_vars

\* the files with a supported extension and a text to summarize whose
\* summarization raises
FailingFiles ==
    { f \in UploadFiles : /\ has_supported_extension(f.filename)
                          /\ f.save_ok
                          /\ ~is_blank(f.extracted)
                          /\ f.pipeline.raises }

\* C18: when the summarization of a non-empty text fails, for whatever
\* reason, the owner's upload still succeeds and appends two messages, and
\* the summary it stores and returns is one fixed fallback text, the same
\* for every failure.
C18_SummaryFailureFallback ==
    owned_chat(chats, 1, 1) # {} =>
        \A f1, f2 \in FailingFiles :
            LET r1 == upload_chat_file(chats, messages, nextMsgId, 1, 1, f1)
                r2 == upload_chat_file(chats, messages, nextMsgId, 1, 1, f2)
            IN  /\ r1.resp.status = 200
                /\ Cardinality(r1.messages \ messages) = 2
                /\ r1.resp.body.summary = r2.resp.body.summary

\* C19: a thread or message operation that ends in an authorization error
\* (403) or a validation error (422) leaves the store as it was: no thread
\* and no message is added, removed or renamed.
C19_ErrorsChangeNothing ==
    [][ (last'.op \in ThreadOps /\ last'.status \in {403, 422})
        => (chats' = chats /\ messages' = messages) ]_vars

\* C19 witness: a delete_chat against another user's thread that holds
\* messages was answered 403, and the thread and its messages are stored
C19_Witness ==
    /\ last.op = "delete_chat"
    /\ last.status = 403
    /\ \E ch \in chats : ch.id = last.chat_id /\ ch.user_id # last.user
    /\ chat_messages(messages, last.chat_id) # {}

\* a request without a bearer token, with a token that does not verify or
\* has expired, or with a token whose subject is no existing user
is_bad_token(token) ==
    \/ ~token.header
    \/ ~token.signed
    \/ token.expired
    \/ "sub" \notin DOMAIN token.payload
    \/ \A a \in users : a.username # token.payload.sub

\* C20: a thread or message endpoint called without a bearer token, with an
\* invalid token, or with a token whose subject is no existing user, is
\* answered 401, whether the thread named exists or not and whoever owns
\* it, and the store stays as it was.
C20_BadTokenIs401 ==
    [][ \A token \in Tokens : is_bad_token(token) =>
          \A c \in AuthChatIds :
            (\/ AuthGetChatMessages(token, c)
             \/ \E data \in SomeDatas : AuthSendMessage(token, c, data)
             \/ AuthDeleteChat(token, c)
             \/ \E file \in SomeFiles : AuthUploadChatFile(token, c, file))
            => (/\ last'.status = 401
                /\ chats' = chats
                /\ messages' = messages) ]_vars

\* C20 witness: a delete_chat with a bad token against a thread that exists
\* and holds messages was answered 401
C20_Witness ==
    /\ last.op = "delete_chat"
    /\ last.status = 401
    /\ chat_exists(chats, last.chat_id)
    /\ chat_messages(messages, last.chat_id) # {}

\* C21: get_user_chats answers 200 with exactly the threads whose user_id
\* is the caller, each once and with its current name, and with no thread
\* of another user; a caller without threads gets the empty list.
C21_ListIsOwnersThreads ==
    last.op = "get_user_chats" =>
        /\ last.status = 200
        /\ \A ch \in chats : ch.user_id = last.user =>
              Cardinality({ i \in 1..Len(last.body.chats) :
                              last.body.chats[i].chat_id = ch.id }) = 1
        /\ \A i \in 1..Len(last.body.chats) :
              \E ch \in chats : /\ ch.user_id = last.user
                                /\ ch.id = last.body.chats[i].chat_id
                                /\ ch.name = last.body.chats[i].name

\* C21 witness: a user listed their threads, one of them renamed, while the
\* other user owns a thread too
C21_Witness ==
    /\ last.op = "get_user_chats"
    /\ \E ch \in chats : ch.user_id = last.user /\ ch.name # NewChat
    /\ \E ch \in chats : ch.user_id # last.user
    /\ Len(last.body.chats) = 1

\* C22: create_chat adds exactly one thread, owned by the caller, named
\* "New Chat", without messages and with an id that no existing thread has;
\* every thread and message there was stays as it is.
C22_CreateAddsOneThread ==
    [][ (last'.op = "create_chat" /\ last'.status = 201)
        => /\ chats \subseteq chats'
           /\ messages' = messages
           /\ chats' \ chats = { Chat(last'.body.chat_id, last'.user, NewChat) }
           /\ \A ch \in chats : ch.id # last'.body.chat_id
           /\ chat_messages(messages', last'.body.chat_id) = {} ]_vars

\* C22 witness: a thread was created while another thread with a message
\* was stored
C22_Witness ==
    /\ last.op = "create_chat"
    /\ last.status = 201
    /\ Cardinality(chats) = 2
    /\ messages # {}

\* C23: the message log is append-only: a stored message keeps its role,
\* content and chat_id in every step, and it leaves the store only in a
\* step that deletes its thread.
C23_MessagesAppendOnly ==
    [][ \A m \in messages :
          \/ m \in messages'
          \/ /\ \A x \in messages' : x.id # m.id
             /\ chat_exists(chats, m.chat_id)
             /\ ~chat_exists(chats', m.chat_id) ]_vars

\* C23 witness: a thread that held messages was deleted while a message of
\* another thread is still stored
C23_Witness ==
    /\ last.op = "delete_chat"
    /\ last.status = 204
    /\ nextMsgId > 2
    /\ Cardinality(messages) = 1

\* no two rows of users share a username or a non-NULL email
users_unique ==
    \A a, b \in users :
        a # b => (a.username # b.username /\ (a.email = "" \/ a.email # b.email))

\* the username or the email of the signup worker p serves is registered
is_registered(p) ==
    \/ user_by_username(users, reqs[p].user.username) # {}
    \/ reqs[p].user.email # "" /\ user_by_email(users, reqs[p].user.email) # {}

\* C24: in every reachable state, concurrent signups included, no two
\* users share a username and no two share a non-NULL email; a signup that
\* ends while its username or email is registered is answered 400 and
\* creates no user.
C24_SignupKeepsUsersUnique ==
    [][ /\ users_unique'
        /\ \A p \in Workers :
             (reqs[p].pc # "done" /\ reqs'[p].pc = "done" /\ is_registered(p))
             => (reqs'[p].status = 400 /\ users' = users) ]_vars

\* C25: the rename is in the same transaction as the append of the first
\* user message: in no state of the committed store does a thread that
\* holds a user-role message carry the default name.
C25_RenameWithAppend ==
    \A ch \in chats : ch.name = NewChat => user_msg_count(messages, ch.id) = 0

\* C26: while upload_chat_file saves the file, extracts its text and
\* summarizes it, its session holds no open transaction: the transaction
\* that appends the two messages begins after the summary is there.
C26_NoTransactionWhileSummarizing ==
    \A p \in DOMAIN reqs : reqs[p].pc = "u_summarize" => ~reqs[p].in_transaction

\* the name and the message sequence of a thread as the store holds them
thread_state(cs, ms, chat_id) ==
    [name     |-> { c.name : c \in { x \in cs : x.id = chat_id } },
     messages |-> order_by_id(chat_messages(ms, chat_id))]

\* C27: a step of a send_message, upload or delete_chat request on thread
\* T leaves the name and the message sequence of every other thread as
\* they were, whatever the other requests in flight are doing.
C27_OtherThreadsUnchanged ==
    [][ \A p \in RaceWorkers :
          reqs'[p] # reqs[p] =>
            \A c \in FrameChatIds \ {reqs'[p].chat_id} :
               thread_state(chats', messages', c) = thread_state(chats, messages, c)
      ]_vars

\* a request on thread 1 has renamed it while thread 2 still exists with
\* its message, and a request on thread 2 is in flight
C27_Witness ==
    /\ \E c \in chats : c.id = 1 /\ c.name # NewChat
    /\ \E c \in chats : c.id = 2 /\ c.name = NewChat
    /\ chat_messages(messages, 2) # {}
    /\ \E p \in RaceWorkers : reqs[p].chat_id = 2 /\ reqs[p].pc \notin {"idle", "done"}

\* C28: a run of the chat view creates a thread only for a user who owns no
\* thread: when the listing fails for a user who owns threads, no thread
\* is created.
C28_AutoCreateOnlyWithoutThreads ==
    [][ \A c \in chats' \ chats :
          last'.op = "render" => ~\E x \in chats : x.user_id = c.user_id ]_vars

\* C30: the model call made for a prompt fills the assistant placeholder,
\* whatever the call does, and it is the only call made for that prompt.
C30_OneModelCallFillsPlaceholder ==
    [][ \A u \in DOMAIN reqs :
          reqs'[u].model_calls > reqs[u].model_calls =>
             /\ reqs'[u].model_calls = 1
             /\ ~placeholder_pending(
                    reqs'[u].local_chat_history[reqs'[u].active_chat_id]) ]_vars

\* C29: when upload_document has answered with an error, no temporary file
\* that the request had saved is left in the temporary directory.
C29_FailedBatchLeavesNoTempFile ==
    \A p \in DOMAIN reqs :
       (reqs[p].pc = "done" /\ reqs[p].status # 200) =>
          \A j \in 1..Len(reqs[p].temp_files) : reqs[p].temp_files[j] \notin tmpdir

====
